---- MODULE Spec2Model ----
(***************************************************************************)
(* Model of dndbots.mechanics.MechanicsEngine (src/src/dndbots/mechanics.py)*)
(* with the dice roller (dice.py) and the saving-throw table (rules.py).    *)
(*                                                                          *)
(* Combatant objects live on a heap, because the engine stores REFERENCES:  *)
(* self.combat.combatants[id] and self.pcs[id] may name the same object.    *)
(*   heap    address -> Combatant object (or Free)                          *)
(*   combat  self.combat: NoCombat (None) or a CombatState record whose     *)
(*           combatants field maps an id to an address (0: key absent)      *)
(*   pcs     self.pcs: id -> address (0: key absent)                        *)
(*   result  what the last call returned or raised                          *)
(*   call    the call a caller has prepared and not yet made (NoCall when   *)
(*           the caller chooses its arguments at the moment of the call)    *)
(***************************************************************************)
EXTENDS Integers, Sequences, FiniteSets, TLC

VARIABLES combat, pcs, heap, result, call

vars == <<combat, pcs, heap, result, call>>

----------------------------------------------------------------------------
(* Bounds of the exploration *)

\* in Spec a damage roll is explored only while the target stays at or above
\* -MaxOverkill
MaxOverkill == 1

----------------------------------------------------------------------------
(* Values *)

Ids == {"pc_throk", "goblin_01"}

Addrs == 1 .. (2 * Cardinality(Ids))

\* Python None for self.combat, and an unused heap cell
NoCombat == [none |-> TRUE]
Free == [none |-> TRUE]

\* no prepared call
NoCall == [op |-> "none"]

\* Python None for an optional string
None == "None"

\* Python None for the optional damage_dice argument (a notation is a sequence)
NoDice == <<"None">>

\* Error names of the specification, one per raise statement of the engine
OK == "ok"
CombatAlreadyActive == "CombatAlreadyActive"
NoActiveCombat == "NoActiveCombat"
DuplicateCombatant == "DuplicateCombatant"
CombatantNotFound == "CombatantNotFound"
MissingDamageDice == "MissingDamageDice"
InvalidNotation == "InvalidNotation"
InvalidDice == "InvalidDice"
InvalidSaveCategory == "InvalidSaveCategory"
InvalidAbility == "InvalidAbility"

----------------------------------------------------------------------------
(* Inputs of add_combatant: the keyword arguments other than id.  A dice    *)
(* notation and a class name are sequences of one-character strings.        *)

Throk ==
  [name |-> "Throk", hp |-> 1, hp_max |-> 4, ac |-> -3, thac0 |-> 10,
   damage_dice |-> <<"1", "d", "2">>, char_class |-> <<"f", "i", "g", "h", "t", "e", "r">>,
   level |-> 2,
   morale |-> 9, is_pc |-> TRUE]

Goblin ==
  [name |-> "Goblin", hp |-> 0, hp_max |-> 2, ac |-> 9, thac0 |-> 19,
   damage_dice |-> <<>>, char_class |-> <<"g", "o", "b", "l", "i", "n">>,
   level |-> 1, morale |-> 7, is_pc |-> FALSE]

\* the add_combatant calls explored: <<id, the other arguments>>
AddArgs == {<<"pc_throk", Throk>>, <<"pc_throk", Goblin>>, <<"goblin_01", Goblin>>}

Styles == {"soft", "strict"}

----------------------------------------------------------------------------
(* dice.py *)

Digits == {"0", "1", "2", "3", "4", "5", "6", "7", "8", "9"}

\* int() of one decimal digit
DigitVal(c) ==
  CASE c = "0" -> 0 [] c = "1" -> 1 [] c = "2" -> 2 [] c = "3" -> 3
    [] c = "4" -> 4 [] c = "5" -> 5 [] c = "6" -> 6 [] c = "7" -> 7
    [] c = "8" -> 8 [] c = "9" -> 9

LowerCase ==
  <<"a", "b", "c", "d", "e", "f", "g", "h", "i", "j", "k", "l", "m",
    "n", "o", "p", "q", "r", "s", "t", "u", "v", "w", "x", "y", "z">>

UpperCase ==
  <<"A", "B", "C", "D", "E", "F", "G", "H", "I", "J", "K", "L", "M",
    "N", "O", "P", "Q", "R", "S", "T", "U", "V", "W", "X", "Y", "Z">>

\* str.lower() of one character
LowerChar(c) ==
  IF \E i \in 1 .. 26 : UpperCase[i] = c
  THEN LowerCase[CHOOSE i \in 1 .. 26 : UpperCase[i] = c]
  ELSE c

\* str.upper() of one character
UpperChar(c) ==
  IF \E i \in 1 .. 26 : LowerCase[i] = c
  THEN UpperCase[CHOOSE i \in 1 .. 26 : LowerCase[i] = c]
  ELSE c

\* notation.lower().replace(" ", "")
Normalize(s) ==
  LET low == [i \in 1 .. Len(s) |-> LowerChar(s[i])]
      keep(c) == c # " "
  IN SelectSeq(low, keep)

\* \d* : every character is a digit (the empty string included)
IsDigits(s) == \A i \in 1 .. Len(s) : s[i] \in Digits

RECURSIVE IntOf(_)
\* int() of a string of digits
IntOf(s) ==
  IF s = <<>> THEN 0
  ELSE 10 * IntOf(SubSeq(s, 1, Len(s) - 1)) + DigitVal(s[Len(s)])

\* positions i of the "d" for which ^(\d*)d(\d+)([+-]\d+)?$ matches, with
\* the end j of the sides group
Matches(s) ==
  {<<i, j>> \in (1 .. Len(s)) \X (1 .. Len(s)) :
     /\ s[i] = "d"
     /\ IsDigits(SubSeq(s, 1, i - 1))
     /\ j > i
     /\ IsDigits(SubSeq(s, i + 1, j))
     /\ \/ j = Len(s)
        \/ /\ j + 2 <= Len(s)
           /\ s[j + 1] \in {"+", "-"}
           /\ IsDigits(SubSeq(s, j + 2, Len(s)))}

\* parse_roll(notation): ok is FALSE where the code raises ValueError
parse_roll(notation) ==
  LET s == Normalize(notation)
  IN IF Matches(s) = {}
     THEN [ok |-> FALSE, dice |-> 0, sides |-> 0, modifier |-> 0]
     ELSE LET m == CHOOSE m \in Matches(s) : TRUE
              i == m[1]
              j == m[2]
              dice_str == SubSeq(s, 1, i - 1)
              sides_str == SubSeq(s, i + 1, j)
              mod_val == IF j = Len(s) THEN 0
                         ELSE IF s[j + 1] = "-"
                              THEN 0 - IntOf(SubSeq(s, j + 2, Len(s)))
                              ELSE IntOf(SubSeq(s, j + 2, Len(s)))
          IN [ok |-> TRUE,
              dice |-> IF dice_str = <<>> THEN 1 ELSE IntOf(dice_str),
              sides |-> IntOf(sides_str),
              modifier |-> mod_val]

\* roll(dice, sides, modifier): the values the call can return.  range(dice)
\* is empty for dice <= 0, so the sum is 0; random.randint(1, sides) raises
\* ValueError for sides < 1, so with dice >= 1 nothing is returned.
roll(dice, sides, modifier) ==
  IF dice <= 0 THEN {modifier}
  ELSE IF sides < 1 THEN {}
  ELSE {t + modifier : t \in dice .. (dice * sides)}

----------------------------------------------------------------------------
(* rules.py *)

Fighter == <<"F", "i", "g", "h", "t", "e", "r">>
Cleric == <<"C", "l", "e", "r", "i", "c">>
Thief == <<"T", "h", "i", "e", "f">>
MagicUser == <<"M", "a", "g", "i", "c", "-", "U", "s", "e", "r">>

SaveRow(dr, w, p, b, sp) ==
  [death_ray |-> dr, wands |-> w, paralysis |-> p, breath |-> b, spells |-> sp]

\* SAVING_THROWS[class][level]
SAVING_THROWS(class, level) ==
  CASE class = Fighter ->
         IF level <= 3 THEN SaveRow(12, 13, 14, 15, 16) ELSE SaveRow(10, 11, 12, 13, 14)
    [] class = Cleric ->
         IF level <= 3 THEN SaveRow(11, 12, 14, 16, 15) ELSE SaveRow(9, 10, 12, 14, 13)
    [] class = Thief ->
         IF level <= 3 THEN SaveRow(13, 14, 13, 16, 15) ELSE SaveRow(11, 12, 11, 14, 13)
    [] class = MagicUser ->
         IF level <= 3 THEN SaveRow(13, 14, 13, 16, 15) ELSE SaveRow(11, 12, 11, 14, 13)

TabulatedClasses == {Fighter, Cleric, Thief, MagicUser}

\* max(class_table.keys())
MaxTableLevel == 6

\* str.capitalize(): first character upper-cased, the rest lower-cased
Capitalize(s) ==
  [i \in 1 .. Len(s) |-> IF i = 1 THEN UpperChar(s[i]) ELSE LowerChar(s[i])]

Min(a, b) == IF a < b THEN a ELSE b
Max(a, b) == IF a > b THEN a ELSE b

\* get_saving_throw(char_class, level, save_type), for a save_type the row has
get_saving_throw(char_class, level, save_type) ==
  LET normalized_class == Capitalize(char_class)
      class == IF normalized_class \in TabulatedClasses
               THEN normalized_class ELSE Fighter
      clamped_level == Max(Min(level, MaxTableLevel), 1)
  IN SAVING_THROWS(class, clamped_level)[save_type]

valid_save_types == {"death_ray", "wands", "paralysis", "breath", "spells"}

valid_abilities == {"str", "dex", "con", "int", "wis", "cha"}

----------------------------------------------------------------------------
(* The heap *)

\* Combatant(...): the dataclass constructor; conditions defaults to set()
Combatant(id, sheet) ==
  [id |-> id, name |-> sheet.name, hp |-> sheet.hp, hp_max |-> sheet.hp_max,
   ac |-> sheet.ac, thac0 |-> sheet.thac0, damage_dice |-> sheet.damage_dice,
   char_class |-> sheet.char_class, level |-> sheet.level,
   morale |-> sheet.morale, conditions |-> {}, is_pc |-> sheet.is_pc]

\* CombatState(combat_style=style): the dataclass defaults
CombatState(style) ==
  [combatants |-> [i \in Ids |-> 0], initiative_order |-> <<>>,
   current_turn |-> None, round_number |-> 1, combat_style |-> style]

\* Addresses are not observable by the program, so the heap is kept in a
\* normal form: the object the roster holds for an id lives at RosterAddr(id)
\* (the registry may refer to it too), and an object that only the registry
\* holds lives at KeptAddr(id).
IdIndex(id) == IF id = "pc_throk" THEN 1 ELSE 2
RosterAddr(id) == 2 * IdIndex(id) - 1
KeptAddr(id) == 2 * IdIndex(id)

\* the addresses a CombatState or a registry refers to
Refs(c, p) ==
  {p[i] : i \in Ids} \cup
  (IF c = NoCombat THEN {} ELSE {c.combatants[i] : i \in Ids})

\* objects no longer referenced by the engine are dropped
Collect(h, c, p) == [a \in Addrs |-> IF a \in Refs(c, p) THEN h[a] ELSE Free]

\* ids that are keys of self.combat.combatants
Roster == IF combat = NoCombat THEN {} ELSE {i \in Ids : combat.combatants[i] # 0}

\* self.combat.combatants.get(id): the object, for a key that is present
Get(id) == heap[combat.combatants[id]]

\* ids that are keys of self.pcs
Registered == {i \in Ids : pcs[i] # 0}

\* self.pcs[id], for a key that is present
Pc(id) == heap[pcs[id]]

----------------------------------------------------------------------------
(* MechanicsEngine.__init__ *)

Init ==
  /\ combat = NoCombat
  /\ pcs = [i \in Ids |-> 0]
  /\ heap = [a \in Addrs |-> Free]
  /\ result = [op |-> "__init__", args |-> [none |-> TRUE], err |-> OK,
               ret |-> [none |-> TRUE]]
  /\ call = NoCall

\* a call that raises: nothing but the outcome changes
Raise(op, args, err) ==
  /\ result' = [op |-> op, args |-> args, err |-> err, ret |-> [none |-> TRUE]]
  /\ UNCHANGED <<combat, pcs, heap>>

\* a call that returns ret
Return(op, args, ret) ==
  result' = [op |-> op, args |-> args, err |-> OK, ret |-> ret]

----------------------------------------------------------------------------
(* Combat lifecycle *)

\* start_combat without the check for a running session
start_combat_restarts(style) ==
  /\ combat' = CombatState(style)
  /\ Return("start_combat", [style |-> style], [none |-> TRUE])
  /\ UNCHANGED <<pcs, heap>>

start_combat(style) ==
  LET args == [style |-> style] IN
  IF combat # NoCombat
  THEN Raise("start_combat", args, CombatAlreadyActive)
  ELSE /\ combat' = CombatState(style)
       /\ Return("start_combat", args, [none |-> TRUE])
       /\ UNCHANGED <<pcs, heap>>

\* add_combatant that registers a PC before it looks at self.combat
add_combatant_registers_first(id, sheet) ==
  LET args == [id |-> id, sheet |-> sheet] IN
  IF combat = NoCombat
  THEN /\ result' = [op |-> "add_combatant", args |-> args,
                     err |-> NoActiveCombat, ret |-> [none |-> TRUE]]
       /\ pcs' = IF sheet.is_pc THEN [pcs EXCEPT ![id] = KeptAddr(id)] ELSE pcs
       /\ heap' = IF sheet.is_pc
                  THEN [heap EXCEPT ![KeptAddr(id)] = Combatant(id, sheet)]
                  ELSE heap
       /\ UNCHANGED combat
  ELSE IF id \in Roster
  THEN Raise("add_combatant", args, DuplicateCombatant)
  ELSE LET a == RosterAddr(id)
           h1 == [heap EXCEPT ![a] = Combatant(id, sheet)]
           c1 == [combat EXCEPT !.combatants[id] = a]
           p1 == IF sheet.is_pc THEN [pcs EXCEPT ![id] = a] ELSE pcs
       IN /\ combat' = c1
          /\ pcs' = p1
          /\ heap' = Collect(h1, c1, p1)
          /\ Return("add_combatant", args, [addr |-> a])

\* add_combatant without the check for an id the roster already holds
add_combatant_replaces(id, sheet) ==
  LET args == [id |-> id, sheet |-> sheet] IN
  IF combat = NoCombat
  THEN Raise("add_combatant", args, NoActiveCombat)
  ELSE LET a == RosterAddr(id)
           h1 == [heap EXCEPT ![a] = Combatant(id, sheet)]
           c1 == [combat EXCEPT !.combatants[id] = a]
           p1 == IF sheet.is_pc THEN [pcs EXCEPT ![id] = a] ELSE pcs
       IN /\ combat' = c1
          /\ pcs' = p1
          /\ heap' = Collect(h1, c1, p1)
          /\ Return("add_combatant", args, [addr |-> a])

\* add_combatant that writes every combatant, PC or not, into self.pcs
add_combatant_registers_all(id, sheet) ==
  LET args == [id |-> id, sheet |-> sheet] IN
  IF combat = NoCombat
  THEN Raise("add_combatant", args, NoActiveCombat)
  ELSE IF id \in Roster
  THEN Raise("add_combatant", args, DuplicateCombatant)
  ELSE LET a == RosterAddr(id)
           h1 == [heap EXCEPT ![a] = Combatant(id, sheet)]
           c1 == [combat EXCEPT !.combatants[id] = a]
           p1 == [pcs EXCEPT ![id] = a]
       IN /\ combat' = c1
          /\ pcs' = p1
          /\ heap' = Collect(h1, c1, p1)
          /\ Return("add_combatant", args, [addr |-> a])

\* add_combatant that also appends the id to the initiative order and gives
\* the turn to the first id of the order
add_combatant_sets_initiative(id, sheet) ==
  LET args == [id |-> id, sheet |-> sheet] IN
  IF combat = NoCombat
  THEN Raise("add_combatant", args, NoActiveCombat)
  ELSE IF id \in Roster
  THEN Raise("add_combatant", args, DuplicateCombatant)
  ELSE LET a == RosterAddr(id)
           h1 == [heap EXCEPT ![a] = Combatant(id, sheet)]
           order == Append(combat.initiative_order, id)
           c1 == [combat EXCEPT !.combatants[id] = a,
                                !.initiative_order = order,
                                !.current_turn = order[1]]
           p1 == IF sheet.is_pc THEN [pcs EXCEPT ![id] = a] ELSE pcs
       IN /\ combat' = c1
          /\ pcs' = p1
          /\ heap' = Collect(h1, c1, p1)
          /\ Return("add_combatant", args, [addr |-> a])

\* add_combatant that takes the hit points and conditions of a PC from the
\* registry when the registry has the id
add_combatant_restores(id, sheet) ==
  LET args == [id |-> id, sheet |-> sheet] IN
  IF combat = NoCombat
  THEN Raise("add_combatant", args, NoActiveCombat)
  ELSE IF id \in Roster
  THEN Raise("add_combatant", args, DuplicateCombatant)
  ELSE LET a == RosterAddr(id)
           combatant == IF sheet.is_pc /\ id \in Registered
                        THEN [Combatant(id, sheet) EXCEPT
                                !.hp = heap[pcs[id]].hp,
                                !.conditions = heap[pcs[id]].conditions]
                        ELSE Combatant(id, sheet)
           h1 == [heap EXCEPT ![a] = combatant]
           c1 == [combat EXCEPT !.combatants[id] = a]
           p1 == IF sheet.is_pc THEN [pcs EXCEPT ![id] = a] ELSE pcs
       IN /\ combat' = c1
          /\ pcs' = p1
          /\ heap' = Collect(h1, c1, p1)
          /\ Return("add_combatant", args, [addr |-> a])

add_combatant(id, sheet) ==
  LET args == [id |-> id, sheet |-> sheet] IN
  IF combat = NoCombat
  THEN Raise("add_combatant", args, NoActiveCombat)
  ELSE IF id \in Roster
  THEN Raise("add_combatant", args, DuplicateCombatant)
  ELSE LET a == RosterAddr(id)
           h1 == [heap EXCEPT ![a] = Combatant(id, sheet)]
           c1 == [combat EXCEPT !.combatants[id] = a]
           p1 == IF sheet.is_pc THEN [pcs EXCEPT ![id] = a] ELSE pcs
       IN /\ combat' = c1
          /\ pcs' = p1
          /\ heap' = Collect(h1, c1, p1)
          /\ Return("add_combatant", args, [addr |-> a])

\* sum(1 for c in self.combat.combatants.values() if c.hp > 0)
Survivors == Cardinality({i \in Roster : Get(i).hp > 0})

\* casualties counted as hp < 0: a combatant at exactly 0 is left out
CasualtiesBelowZero == Cardinality({i \in Roster : Get(i).hp < 0})

\* sum(1 for c in self.combat.combatants.values() if c.hp <= 0)
Casualties == Cardinality({i \in Roster : Get(i).hp <= 0})

\* end_combat without the is_pc test: every combatant is written to self.pcs
end_combat_registers_all ==
  IF combat = NoCombat
  THEN Raise("end_combat", [none |-> TRUE], NoActiveCombat)
  ELSE LET summary == [rounds |-> combat.round_number,
                       combatants |-> Cardinality(Roster),
                       survivors |-> Survivors,
                       casualties |-> Casualties]
           p1 == [i \in Ids |-> IF i \in Roster THEN KeptAddr(i) ELSE pcs[i]]
           h1 == [a \in Addrs |->
                    IF \E i \in Roster : a = KeptAddr(i)
                    THEN Get(CHOOSE i \in Roster : a = KeptAddr(i))
                    ELSE heap[a]]
       IN /\ pcs' = p1
          /\ combat' = NoCombat
          /\ heap' = Collect(h1, NoCombat, p1)
          /\ Return("end_combat", [none |-> TRUE], summary)

end_combat ==
  IF combat = NoCombat
  THEN Raise("end_combat", [none |-> TRUE], NoActiveCombat)
  ELSE LET summary == [rounds |-> combat.round_number,
                       combatants |-> Cardinality(Roster),
                       survivors |-> Survivors,
                       casualties |-> Casualties]
           \* self.pcs[id] = combatant, for every PC of the roster; the
           \* registry is then the only holder of these objects
           p1 == [i \in Ids |-> IF i \in Roster /\ Get(i).is_pc
                                THEN KeptAddr(i) ELSE pcs[i]]
           h1 == [a \in Addrs |->
                    IF \E i \in Roster : Get(i).is_pc /\ a = KeptAddr(i)
                    THEN Get(CHOOSE i \in Roster : a = KeptAddr(i))
                    ELSE heap[a]]
       IN /\ pcs' = p1
          /\ combat' = NoCombat
          /\ heap' = Collect(h1, NoCombat, p1)
          /\ Return("end_combat", [none |-> TRUE], summary)

\* list(a_set): the elements, each once, in an order the caller cannot choose
ListOf(S) ==
  {q \in [1 .. Cardinality(S) -> S] : \A x \in S : \E i \in DOMAIN q : q[i] = x}

\* one list(c.conditions) for every combatant of the roster
ConditionLists ==
  {f \in [Roster -> UNION {ListOf(Get(i).conditions) : i \in Roster}] :
     \A i \in Roster : f[i] \in ListOf(Get(i).conditions)}

get_combat_status ==
  /\ IF combat = NoCombat
     THEN Return("get_combat_status", [none |-> TRUE], [none |-> TRUE])
     ELSE \E lists \in ConditionLists :
            Return("get_combat_status", [none |-> TRUE],
                   [round |-> combat.round_number,
                    style |-> combat.combat_style,
                    current_turn |-> combat.current_turn,
                    combatants |->
                      [i \in Roster |->
                         [name |-> Get(i).name, hp |-> Get(i).hp,
                          hp_max |-> Get(i).hp_max, ac |-> Get(i).ac,
                          conditions |-> lists[i],
                          is_pc |-> Get(i).is_pc]]])
  /\ UNCHANGED <<combat, pcs, heap>>

\* get_combatant that falls back to the registry when the roster has no entry
get_combatant_from_registry(id) ==
  /\ IF combat = NoCombat \/ id \notin Roster
     THEN Return("get_combatant", [id |-> id], [addr |-> pcs[id]])
     ELSE Return("get_combatant", [id |-> id], [addr |-> combat.combatants[id]])
  /\ UNCHANGED <<combat, pcs, heap>>

get_combatant(id) ==
  /\ IF combat = NoCombat
     THEN Return("get_combatant", [id |-> id], [addr |-> 0])
     ELSE Return("get_combatant", [id |-> id], [addr |-> combat.combatants[id]])
  /\ UNCHANGED <<combat, pcs, heap>>

----------------------------------------------------------------------------
(* Resolution.  The d20 and 2d6 draws are parameters of the actions: each   *)
(* action requires its draw to be a value roll() can return.                *)

\* the natural-roll tests made on the modified total instead of the raw draw
D20OutcomeOnTotal(raw_roll, modifier, needed) ==
  IF raw_roll + modifier = 1 THEN FALSE
  ELSE IF raw_roll + modifier = 20 THEN TRUE
  ELSE raw_roll + modifier >= needed

\* an ordinary roll must exceed the needed number
D20OutcomeStrict(raw_roll, modifier, needed) ==
  IF raw_roll = 1 THEN FALSE
  ELSE IF raw_roll = 20 THEN TRUE
  ELSE raw_roll + modifier > needed

\* the natural-1 / natural-20 / ordinary branches shared by roll_attack,
\* roll_save and roll_ability_check
D20Outcome(raw_roll, modifier, needed) ==
  IF raw_roll = 1 THEN FALSE
  ELSE IF raw_roll = 20 THEN TRUE
  ELSE raw_roll + modifier >= needed

\* AttackResult(...) of roll_attack's three return statements; raw is the
\* draw itself, kept beside the fields of the result for the properties
AttackResult(raw_roll, modifier, needed) ==
  LET hit == D20Outcome(raw_roll, modifier, needed)
  IN [hit |-> hit, roll |-> raw_roll + modifier,
      needed |-> needed, modifier |-> modifier,
      narrative |->
        IF raw_roll = 1 THEN "Critical miss! The attack goes wide!"
        ELSE IF raw_roll = 20 THEN "Critical hit! The strike finds its mark!"
        ELSE IF hit THEN "The attack strikes true!"
        ELSE "The attack misses its target.",
      raw |-> raw_roll]

\* roll_attack that takes an unknown target for an unarmoured one (AC 9)
roll_attack_default_target(attacker, target, modifier, raw_roll) ==
  LET args == [attacker |-> attacker, target |-> target, modifier |-> modifier] IN
  IF combat = NoCombat
  THEN Raise("roll_attack", args, NoActiveCombat)
  ELSE IF attacker \notin Roster
  THEN Raise("roll_attack", args, CombatantNotFound)
  ELSE LET target_ac == IF target \in Roster THEN Get(target).ac ELSE 9
           needed == Get(attacker).thac0 - target_ac
       IN /\ raw_roll \in roll(1, 20, 0)
          /\ Return("roll_attack", args, AttackResult(raw_roll, modifier, needed))
          /\ UNCHANGED <<combat, pcs, heap>>

roll_attack(attacker, target, modifier, raw_roll) ==
  LET args == [attacker |-> attacker, target |-> target, modifier |-> modifier] IN
  IF combat = NoCombat
  THEN Raise("roll_attack", args, NoActiveCombat)
  ELSE IF attacker \notin Roster
  THEN Raise("roll_attack", args, CombatantNotFound)
  ELSE IF target \notin Roster
  THEN Raise("roll_attack", args, CombatantNotFound)
  ELSE LET needed == Get(attacker).thac0 - Get(target).ac
       IN /\ raw_roll \in roll(1, 20, 0)
          /\ Return("roll_attack", args, AttackResult(raw_roll, modifier, needed))
          /\ UNCHANGED <<combat, pcs, heap>>

\* the status with the comparison against half of the maximum made before
\* the test for one hit point
StatusRatioFirst(hp, hp_max) ==
  IF hp <= 0 THEN "dead"
  ELSE IF 2 * hp > hp_max THEN "healthy"
  ELSE IF hp = 1 THEN "critical"
  ELSE "wounded"

\* the status label roll_damage derives from the target's hit points
Status(hp, hp_max) ==
  IF hp <= 0 THEN "dead"
  ELSE IF hp = 1 THEN "critical"
  ELSE IF 2 * hp > hp_max THEN "healthy"
  ELSE "wounded"

\* roll_damage that takes a combatant it has killed out of the roster
roll_damage_removes_dead(attacker, target, damage_dice, modifier) ==
  LET args == [attacker |-> attacker, target |-> target,
               damage_dice |-> damage_dice, modifier |-> modifier] IN
  IF combat = NoCombat
  THEN Raise("roll_damage", args, NoActiveCombat)
  ELSE IF attacker \notin Roster
  THEN Raise("roll_damage", args, CombatantNotFound)
  ELSE IF target \notin Roster
  THEN Raise("roll_damage", args, CombatantNotFound)
  ELSE LET dice_notation == IF damage_dice # NoDice THEN damage_dice
                            ELSE Get(attacker).damage_dice
           parsed == parse_roll(dice_notation)
           rolls == roll(parsed.dice, parsed.sides, parsed.modifier)
       IN IF dice_notation = <<>>
          THEN Raise("roll_damage", args, MissingDamageDice)
          ELSE IF ~parsed.ok
          THEN Raise("roll_damage", args, InvalidNotation)
          ELSE IF rolls = {}
          THEN Raise("roll_damage", args, InvalidDice)
          ELSE \E base_damage \in rolls :
                 LET total_damage == Max(base_damage + modifier, 1)
                     a == combat.combatants[target]
                     hp1 == heap[a].hp - total_damage
                     h1 == [heap EXCEPT ![a].hp = hp1]
                     c1 == IF hp1 <= 0
                           THEN [combat EXCEPT !.combatants[target] = 0]
                           ELSE combat
                 IN /\ combat' = c1
                    /\ heap' = Collect(h1, c1, pcs)
                    /\ Return("roll_damage", args,
                              [damage |-> total_damage, target_hp |-> hp1,
                               target_hp_max |-> heap[a].hp_max,
                               status |-> Status(hp1, heap[a].hp_max),
                               narrative |-> <<heap[a].name, Status(hp1, heap[a].hp_max)>>])
                    /\ UNCHANGED pcs

\* roll_damage that never takes hit points below zero
roll_damage_floors_hp(attacker, target, damage_dice, modifier) ==
  LET args == [attacker |-> attacker, target |-> target,
               damage_dice |-> damage_dice, modifier |-> modifier] IN
  IF combat = NoCombat
  THEN Raise("roll_damage", args, NoActiveCombat)
  ELSE IF attacker \notin Roster
  THEN Raise("roll_damage", args, CombatantNotFound)
  ELSE IF target \notin Roster
  THEN Raise("roll_damage", args, CombatantNotFound)
  ELSE LET dice_notation == IF damage_dice # NoDice THEN damage_dice
                            ELSE Get(attacker).damage_dice
           parsed == parse_roll(dice_notation)
           rolls == roll(parsed.dice, parsed.sides, parsed.modifier)
       IN IF dice_notation = <<>>
          THEN Raise("roll_damage", args, MissingDamageDice)
          ELSE IF ~parsed.ok
          THEN Raise("roll_damage", args, InvalidNotation)
          ELSE IF rolls = {}
          THEN Raise("roll_damage", args, InvalidDice)
          ELSE \E base_damage \in rolls :
                 LET total_damage == Max(base_damage + modifier, 1)
                     a == combat.combatants[target]
                     hp1 == Max(heap[a].hp - total_damage, 0)
                 IN /\ heap' = [heap EXCEPT ![a].hp = hp1]
                    /\ Return("roll_damage", args,
                              [damage |-> total_damage, target_hp |-> hp1,
                               target_hp_max |-> heap[a].hp_max,
                               status |-> Status(hp1, heap[a].hp_max),
                               narrative |-> <<heap[a].name, Status(hp1, heap[a].hp_max)>>])
                    /\ UNCHANGED <<combat, pcs>>

\* roll_damage without the minimum of 1: a total below 0 raises hit points
roll_damage_no_minimum(attacker, target, damage_dice, modifier) ==
  LET args == [attacker |-> attacker, target |-> target,
               damage_dice |-> damage_dice, modifier |-> modifier] IN
  IF combat = NoCombat
  THEN Raise("roll_damage", args, NoActiveCombat)
  ELSE IF attacker \notin Roster
  THEN Raise("roll_damage", args, CombatantNotFound)
  ELSE IF target \notin Roster
  THEN Raise("roll_damage", args, CombatantNotFound)
  ELSE LET dice_notation == IF damage_dice # NoDice THEN damage_dice
                            ELSE Get(attacker).damage_dice
           parsed == parse_roll(dice_notation)
           rolls == roll(parsed.dice, parsed.sides, parsed.modifier)
       IN IF dice_notation = <<>>
          THEN Raise("roll_damage", args, MissingDamageDice)
          ELSE IF ~parsed.ok
          THEN Raise("roll_damage", args, InvalidNotation)
          ELSE IF rolls = {}
          THEN Raise("roll_damage", args, InvalidDice)
          ELSE \E base_damage \in rolls :
                 LET total_damage == base_damage + modifier
                     a == combat.combatants[target]
                     hp1 == heap[a].hp - total_damage
                 IN /\ heap' = [heap EXCEPT ![a].hp = hp1]
                    /\ Return("roll_damage", args,
                              [damage |-> total_damage, target_hp |-> hp1,
                               target_hp_max |-> heap[a].hp_max,
                               status |-> Status(hp1, heap[a].hp_max),
                               narrative |-> <<heap[a].name, Status(hp1, heap[a].hp_max)>>])
                    /\ UNCHANGED <<combat, pcs>>

roll_damage(attacker, target, damage_dice, modifier) ==
  LET args == [attacker |-> attacker, target |-> target,
               damage_dice |-> damage_dice, modifier |-> modifier] IN
  IF combat = NoCombat
  THEN Raise("roll_damage", args, NoActiveCombat)
  ELSE IF attacker \notin Roster
  THEN Raise("roll_damage", args, CombatantNotFound)
  ELSE IF target \notin Roster
  THEN Raise("roll_damage", args, CombatantNotFound)
  ELSE LET dice_notation == IF damage_dice # NoDice THEN damage_dice
                            ELSE Get(attacker).damage_dice
           parsed == parse_roll(dice_notation)
           rolls == roll(parsed.dice, parsed.sides, parsed.modifier)
       IN IF dice_notation = <<>>
          THEN Raise("roll_damage", args, MissingDamageDice)
          ELSE IF ~parsed.ok
          THEN Raise("roll_damage", args, InvalidNotation)
          ELSE IF rolls = {}
          THEN Raise("roll_damage", args, InvalidDice)
          ELSE \E base_damage \in rolls :
                 LET total_damage == Max(base_damage + modifier, 1)
                     a == combat.combatants[target]
                     hp1 == heap[a].hp - total_damage
                 IN /\ heap' = [heap EXCEPT ![a].hp = hp1]
                    /\ Return("roll_damage", args,
                              [damage |-> total_damage, target_hp |-> hp1,
                               target_hp_max |-> heap[a].hp_max,
                               status |-> Status(hp1, heap[a].hp_max),
                               narrative |-> <<heap[a].name, Status(hp1, heap[a].hp_max)>>])
                    /\ UNCHANGED <<combat, pcs>>

\* roll_save that takes an unknown category for a save against spells
roll_save_default_category(target, save_type, modifier, raw_roll) ==
  LET args == [target |-> target, save_type |-> save_type, modifier |-> modifier] IN
  IF combat = NoCombat
  THEN Raise("roll_save", args, NoActiveCombat)
  ELSE IF target \notin Roster
  THEN Raise("roll_save", args, CombatantNotFound)
  ELSE LET category == IF save_type \in valid_save_types THEN save_type ELSE "spells"
           needed == get_saving_throw(Get(target).char_class, Get(target).level, category)
           success == D20Outcome(raw_roll, modifier, needed)
       IN /\ raw_roll \in roll(1, 20, 0)
          /\ Return("roll_save", args,
                    [success |-> success, roll |-> raw_roll + modifier,
                     needed |-> needed, modifier |-> modifier,
                     narrative |-> <<Get(target).name, " resists the effect!">>,
                     raw |-> raw_roll])
          /\ UNCHANGED <<combat, pcs, heap>>

roll_save(target, save_type, modifier, raw_roll) ==
  LET args == [target |-> target, save_type |-> save_type, modifier |-> modifier] IN
  IF combat = NoCombat
  THEN Raise("roll_save", args, NoActiveCombat)
  ELSE IF target \notin Roster
  THEN Raise("roll_save", args, CombatantNotFound)
  ELSE IF save_type \notin valid_save_types
  THEN Raise("roll_save", args, InvalidSaveCategory)
  ELSE LET needed == get_saving_throw(Get(target).char_class, Get(target).level, save_type)
           success == D20Outcome(raw_roll, modifier, needed)
       IN /\ raw_roll \in roll(1, 20, 0)
          /\ Return("roll_save", args,
                    [success |-> success, roll |-> raw_roll + modifier,
                     needed |-> needed, modifier |-> modifier,
                     narrative |->
                       <<Get(target).name,
                         IF raw_roll = 1 THEN " succumbs to the effect!"
                         ELSE IF raw_roll = 20 THEN " shrugs off the effect!"
                         ELSE IF success THEN " resists the effect!"
                         ELSE " fails to resist!">>,
                     raw |-> raw_roll])
          /\ UNCHANGED <<combat, pcs, heap>>

roll_ability_check(target, ability, difficulty, modifier, raw_roll) ==
  LET args == [target |-> target, ability |-> ability,
               difficulty |-> difficulty, modifier |-> modifier] IN
  IF combat = NoCombat
  THEN Raise("roll_ability_check", args, NoActiveCombat)
  ELSE IF target \notin Roster
  THEN Raise("roll_ability_check", args, CombatantNotFound)
  ELSE IF ability \notin valid_abilities
  THEN Raise("roll_ability_check", args, InvalidAbility)
  ELSE LET success == D20Outcome(raw_roll, modifier, difficulty)
       IN /\ raw_roll \in roll(1, 20, 0)
          /\ Return("roll_ability_check", args,
                    [success |-> success, roll |-> raw_roll + modifier,
                     needed |-> difficulty, modifier |-> modifier,
                     narrative |->
                       <<Get(target).name,
                         IF raw_roll = 1 THEN " fumbles the "
                         ELSE IF raw_roll = 20 THEN " succeeds brilliantly at the "
                         ELSE IF success THEN " succeeds at the "
                         ELSE " fails the ",
                         ability, " check!">>,
                     raw |-> raw_roll])
          /\ UNCHANGED <<combat, pcs, heap>>

\* roll_morale that holds only on a roll below the morale score
roll_morale_strict(target, morale_roll) ==
  LET args == [target |-> target] IN
  IF combat = NoCombat
  THEN Raise("roll_morale", args, NoActiveCombat)
  ELSE IF target \notin Roster
  THEN Raise("roll_morale", args, CombatantNotFound)
  ELSE LET morale_score == Get(target).morale
           holds == morale_roll < morale_score
       IN /\ morale_roll \in roll(2, 6, 0)
          /\ Return("roll_morale", args,
                    [holds |-> holds, roll |-> morale_roll,
                     needed |-> morale_score,
                     narrative |->
                       <<Get(target).name,
                         IF holds THEN " stands firm!" ELSE "'s nerve breaks!">>])
          /\ UNCHANGED <<combat, pcs, heap>>

roll_morale(target, morale_roll) ==
  LET args == [target |-> target] IN
  IF combat = NoCombat
  THEN Raise("roll_morale", args, NoActiveCombat)
  ELSE IF target \notin Roster
  THEN Raise("roll_morale", args, CombatantNotFound)
  ELSE LET morale_score == Get(target).morale
           holds == morale_roll <= morale_score
       IN /\ morale_roll \in roll(2, 6, 0)
          /\ Return("roll_morale", args,
                    [holds |-> holds, roll |-> morale_roll,
                     needed |-> morale_score,
                     narrative |->
                       <<Get(target).name,
                         IF holds THEN " stands firm!" ELSE "'s nerve breaks!">>])
          /\ UNCHANGED <<combat, pcs, heap>>

----------------------------------------------------------------------------
(* Conditions *)

add_condition(target, condition) ==
  LET args == [target |-> target, condition |-> condition] IN
  IF combat = NoCombat
  THEN Raise("add_condition", args, NoActiveCombat)
  ELSE IF target \notin Roster
  THEN Raise("add_condition", args, CombatantNotFound)
  ELSE /\ heap' = [heap EXCEPT ![combat.combatants[target]].conditions =
                                  @ \cup {condition}]
       /\ Return("add_condition", args, [none |-> TRUE])
       /\ UNCHANGED <<combat, pcs>>

\* remove_condition with set.remove, which raises KeyError for an absent tag
remove_condition_strict(target, condition) ==
  LET args == [target |-> target, condition |-> condition] IN
  IF combat = NoCombat
  THEN Raise("remove_condition", args, NoActiveCombat)
  ELSE IF target \notin Roster
  THEN Raise("remove_condition", args, CombatantNotFound)
  ELSE IF condition \notin Get(target).conditions
  THEN Raise("remove_condition", args, "KeyError")
  ELSE /\ heap' = [heap EXCEPT ![combat.combatants[target]].conditions =
                                  @ \ {condition}]
       /\ Return("remove_condition", args, [none |-> TRUE])
       /\ UNCHANGED <<combat, pcs>>

remove_condition(target, condition) ==
  LET args == [target |-> target, condition |-> condition] IN
  IF combat = NoCombat
  THEN Raise("remove_condition", args, NoActiveCombat)
  ELSE IF target \notin Roster
  THEN Raise("remove_condition", args, CombatantNotFound)
  ELSE /\ heap' = [heap EXCEPT ![combat.combatants[target]].conditions =
                                  @ \ {condition}]
       /\ Return("remove_condition", args, [none |-> TRUE])
       /\ UNCHANGED <<combat, pcs>>

get_conditions(target) ==
  LET args == [target |-> target] IN
  IF combat = NoCombat
  THEN Raise("get_conditions", args, NoActiveCombat)
  ELSE IF target \notin Roster
  THEN Raise("get_conditions", args, CombatantNotFound)
  ELSE /\ \E q \in ListOf(Get(target).conditions) :
            Return("get_conditions", args, [conditions |-> q])
       /\ UNCHANGED <<combat, pcs, heap>>

----------------------------------------------------------------------------
(* Trigger detector (CombatTrigger, apply_damage, check_attack_triggers,    *)
(* check_save_triggers).  mechanics.py of src/ does not hold these methods; *)
(* they are written from section 4.5 of the specification and from the      *)
(* calls of tests/test_mechanics_triggers.py and referee_tools.py.  A       *)
(* trigger dictionary is modelled by the set of its keys.                   *)

CombatTrigger == {"kill", "overkill", "crit_hit", "crit_fail", "clutch_save"}

\* apply_damage where overkill is judged on the amount alone
apply_damage_overkill_alone(target, amount, source) ==
  LET args == [target |-> target, amount |-> amount, source |-> source] IN
  IF combat = NoCombat
  THEN Raise("apply_damage", args, NoActiveCombat)
  ELSE IF target \notin Roster
  THEN Raise("apply_damage", args, CombatantNotFound)
  ELSE LET a == combat.combatants[target]
           hp_before == heap[a].hp
           new_hp == hp_before - amount
           kill == IF hp_before > 0 /\ new_hp <= 0 THEN {"kill"} ELSE {}
           overkill == IF amount >= 2 * hp_before THEN {"overkill"} ELSE {}
       IN /\ heap' = [heap EXCEPT ![a].hp = new_hp]
          /\ Return("apply_damage", args,
                    [triggers |-> kill \cup overkill, new_hp |-> new_hp])
          /\ UNCHANGED <<combat, pcs>>

\* apply_damage(target_id, amount, source_id): the hit points before the hit
\* are recorded, the damage is applied, kill is yielded if the hit points
\* crossed from > 0 to <= 0, and then also overkill if amount >= 2 * the hit
\* points before
apply_damage(target, amount, source) ==
  LET args == [target |-> target, amount |-> amount, source |-> source] IN
  IF combat = NoCombat
  THEN Raise("apply_damage", args, NoActiveCombat)
  ELSE IF target \notin Roster
  THEN Raise("apply_damage", args, CombatantNotFound)
  ELSE LET a == combat.combatants[target]
           hp_before == heap[a].hp
           new_hp == hp_before - amount
           triggers == IF hp_before > 0 /\ new_hp <= 0
                       THEN IF amount >= 2 * hp_before
                            THEN {"kill", "overkill"}
                            ELSE {"kill"}
                       ELSE {}
       IN /\ heap' = [heap EXCEPT ![a].hp = new_hp]
          /\ Return("apply_damage", args, [triggers |-> triggers, new_hp |-> new_hp])
          /\ UNCHANGED <<combat, pcs>>

\* check_attack_triggers that reports a fumble for every raw roll below 2 and
\* a critical hit for every raw roll of 19 or more
check_attack_triggers_wide(raw_roll, attacker, target) ==
  /\ Return("check_attack_triggers",
            [raw_roll |-> raw_roll, attacker |-> attacker, target |-> target],
            [triggers |-> IF raw_roll >= 19 THEN {"crit_hit"}
                          ELSE IF raw_roll <= 1 THEN {"crit_fail"}
                          ELSE {}])
  /\ UNCHANGED <<combat, pcs, heap>>

\* the triggers check_attack_triggers returns for a raw roll
AttackTriggers(raw_roll) ==
  IF raw_roll = 20 THEN {"crit_hit"}
  ELSE IF raw_roll = 1 THEN {"crit_fail"}
  ELSE {}

\* check_attack_triggers(raw_roll, attacker_id, target_id): crit_hit iff
\* raw_roll == 20, crit_fail iff raw_roll == 1; neither id is looked up
check_attack_triggers(raw_roll, attacker, target) ==
  /\ Return("check_attack_triggers",
            [raw_roll |-> raw_roll, attacker |-> attacker, target |-> target],
            [triggers |-> AttackTriggers(raw_roll)])
  /\ UNCHANGED <<combat, pcs, heap>>

\* check_save_triggers that counts a save won by one or two points only
check_save_triggers_above(roll_total, needed, character, save_type) ==
  /\ Return("check_save_triggers",
            [roll |-> roll_total, needed |-> needed, character |-> character,
             save_type |-> save_type],
            [triggers |-> IF 1 <= roll_total - needed /\ roll_total - needed <= 2
                          THEN {"clutch_save"} ELSE {}])
  /\ UNCHANGED <<combat, pcs, heap>>

\* check_save_triggers(roll, needed, character_id, save_category):
\* clutch_save iff 0 <= roll - needed <= 2; the engine's state is not read
check_save_triggers(roll_total, needed, character, save_type) ==
  /\ Return("check_save_triggers",
            [roll |-> roll_total, needed |-> needed, character |-> character,
             save_type |-> save_type],
            [triggers |-> IF 0 <= roll_total - needed /\ roll_total - needed <= 2
                          THEN {"clutch_save"} ELSE {}])
  /\ UNCHANGED <<combat, pcs, heap>>

----------------------------------------------------------------------------
(* referee_tools.py: the tools around roll_damage and roll_attack, with a   *)
(* store and a campaign id configured.  The call a tool makes to the store  *)
(* (record_kill, record_moment) is left in the variable call; NoCall when   *)
(* the tool makes none.                                                     *)

\* roll_damage_tool: engine.roll_damage, then record_kill if the status of
\* the result is "dead"; an exception of roll_damage leaves the tool
roll_damage_tool(attacker, target, damage_dice, modifier) ==
  /\ roll_damage(attacker, target, damage_dice, modifier)
  /\ call' = IF result'.err = OK /\ result'.ret.status = "dead"
             THEN [op |-> "record_kill", attacker_id |-> attacker,
                   target_id |-> target, damage |-> result'.ret.damage]
             ELSE NoCall

\* the record_moment calls of roll_attack_tool for a set of triggers
RecordMoments(triggers, attacker, target) ==
  IF triggers \cap {"crit_hit", "crit_fail"} = {}
  THEN NoCall
  ELSE [op |-> "record_moment", actor_id |-> attacker, target_id |-> target,
        moments |-> triggers \cap {"crit_hit", "crit_fail"}]

\* roll_attack_tool that hands the reported roll, modifier included, to
\* check_attack_triggers
roll_attack_tool_total(attacker, target, modifier, raw_roll) ==
  /\ roll_attack(attacker, target, modifier, raw_roll)
  /\ call' = IF result'.err = OK
             THEN RecordMoments(AttackTriggers(result'.ret.roll), attacker, target)
             ELSE NoCall

\* roll_attack_tool: engine.roll_attack, raw_roll = result.roll -
\* result.modifier, engine.check_attack_triggers(raw_roll, ...), then one
\* record_moment per crit trigger; an exception of roll_attack leaves the tool
roll_attack_tool(attacker, target, modifier, raw_roll) ==
  /\ roll_attack(attacker, target, modifier, raw_roll)
  /\ call' = IF result'.err = OK
             THEN RecordMoments(AttackTriggers(result'.ret.roll - result'.ret.modifier),
                                attacker, target)
             ELSE NoCall

----------------------------------------------------------------------------
(* The engine driven by a caller, with the arguments and draws explored.    *)
(* Every face of the d20 is explored in SpecRoll below.                     *)

Tags == {"prone"}
Modifiers == {0}
DiceArgs == {NoDice, <<"D", "1", " ", "-", "3">>}
SaveTypes == {"spells", "fire"}
Abilities == {"str", "luck"}
Difficulties == {10}
D20Draws == {10}
MoraleDraws == {8}

Next ==
  \/ /\ \E style \in Styles : start_combat(style)
     /\ UNCHANGED call
  \/ /\ \E a \in AddArgs : add_combatant(a[1], a[2])
     /\ UNCHANGED call
  \/ /\ end_combat
     /\ UNCHANGED call
  \/ /\ get_combat_status
     /\ UNCHANGED call
  \/ /\ \E id \in Ids : get_combatant(id)
     /\ UNCHANGED call
  \/ /\ \E a \in Ids, t \in Ids, m \in Modifiers, r \in D20Draws : roll_attack(a, t, m, r)
     /\ UNCHANGED call
  \/ /\ \E a \in Ids, t \in Ids, d \in DiceArgs, m \in Modifiers : roll_damage(a, t, d, m)
     /\ \A x \in Addrs :
          IF heap'[x] = Free THEN TRUE ELSE heap'[x].hp >= 0 - MaxOverkill
     /\ UNCHANGED call
  \/ /\ \E t \in Ids, c \in SaveTypes, m \in Modifiers, r \in D20Draws : roll_save(t, c, m, r)
     /\ UNCHANGED call
  \/ /\ \E t \in Ids, ab \in Abilities, d \in Difficulties, m \in Modifiers, r \in D20Draws :
          roll_ability_check(t, ab, d, m, r)
     /\ UNCHANGED call
  \/ /\ \E t \in Ids, r \in MoraleDraws : roll_morale(t, r)
     /\ UNCHANGED call
  \/ /\ \E t \in Ids, c \in Tags : add_condition(t, c)
     /\ UNCHANGED call
  \/ /\ \E t \in Ids, c \in Tags : remove_condition(t, c)
     /\ UNCHANGED call
  \/ /\ \E t \in Ids : get_conditions(t)
     /\ UNCHANGED call

Spec == Init /\ [][Next]_vars

----------------------------------------------------------------------------
(* The d20 resolutions as functions of their arguments: a session with both *)
(* combatants added, one prepared call with arguments from the sets below,  *)
(* every face of the die.                                                   *)

\* modifiers explored are -MaxModifier .. MaxModifier
MaxModifier == 12

RollModifiers == (0 - MaxModifier) .. MaxModifier
RollSaveTypes ==
  {"death_ray", "wands", "paralysis", "breath", "spells", "fire", "Spells"}
RollAbilities == {"str", "dex", "con", "int", "wis", "cha", "luck", "STR"}
RollDifficulties == {1, 10, 22}

RollCalls ==
  {[op |-> "roll_attack", attacker |-> a, target |-> t, modifier |-> m] :
     a \in Ids, t \in Ids, m \in RollModifiers}
  \cup
  {[op |-> "roll_save", target |-> t, save_type |-> c, modifier |-> m] :
     t \in Ids, c \in RollSaveTypes, m \in RollModifiers}
  \cup
  {[op |-> "roll_ability_check", target |-> t, ability |-> ab,
    difficulty |-> d, modifier |-> m] :
     t \in Ids, ab \in RollAbilities, d \in RollDifficulties, m \in RollModifiers}

\* the state after start_combat("soft"), add_combatant("pc_throk", Throk) and
\* add_combatant("goblin_01", Goblin)
InitRoll ==
  /\ combat = [CombatState("soft") EXCEPT
                 !.combatants = [i \in Ids |-> RosterAddr(i)]]
  /\ pcs = [i \in Ids |-> IF i = "pc_throk" THEN RosterAddr(i) ELSE 0]
  /\ heap = [a \in Addrs |->
               IF a = RosterAddr("pc_throk") THEN Combatant("pc_throk", Throk)
               ELSE IF a = RosterAddr("goblin_01") THEN Combatant("goblin_01", Goblin)
               ELSE Free]
  /\ result = [op |-> "add_combatant", args |-> [id |-> "goblin_01", sheet |-> Goblin],
               err |-> OK, ret |-> [addr |-> RosterAddr("goblin_01")]]
  /\ call \in RollCalls

NextRoll ==
  \/ /\ call.op = "roll_attack"
     /\ \E r \in 1 .. 20 : roll_attack(call.attacker, call.target, call.modifier, r)
     /\ call' = NoCall
  \/ /\ call.op = "roll_save"
     /\ \E r \in 1 .. 20 : roll_save(call.target, call.save_type, call.modifier, r)
     /\ call' = NoCall
  \/ /\ call.op = "roll_ability_check"
     /\ \E r \in 1 .. 20 :
          roll_ability_check(call.target, call.ability, call.difficulty,
                             call.modifier, r)
     /\ call' = NoCall

SpecRoll == InitRoll /\ [][NextRoll]_vars

----------------------------------------------------------------------------
(* roll_damage as a function of its arguments and of the combatants' hit    *)
(* points: a session with both combatants added, the PC's hit points drawn  *)
(* from 1 .. MaxHp, one prepared call.                                      *)

\* hp and hp_max of the PC are drawn from 1 .. MaxHp
MaxHp == 6

DamageSheets ==
  {[Throk EXCEPT !.hp = h, !.hp_max = hm] : h \in 1 .. MaxHp, hm \in 1 .. MaxHp}

DamageDiceArgs ==
  {NoDice, <<>>, <<"2", "d", "2", "+", "1">>, <<"D", "1", " ", "-", "3">>,
   <<"d", "3">>, <<"0", "d", "6">>, <<"1", "d", "0">>, <<"2", "x", "6">>,
   <<"1", "d", "2", "+">>}

DamageModifiers == {-3, 0, 2}

DamageCalls ==
  {[op |-> "roll_damage", attacker |-> a, target |-> t, damage_dice |-> d,
    modifier |-> m] :
     a \in Ids, t \in Ids, d \in DamageDiceArgs, m \in DamageModifiers}

\* the state after start_combat("soft"), add_combatant("pc_throk", sheet) with
\* a sheet of DamageSheets and add_combatant("goblin_01", Goblin)
InitDamage ==
  /\ combat = [CombatState("soft") EXCEPT
                 !.combatants = [i \in Ids |-> RosterAddr(i)]]
  /\ pcs = [i \in Ids |-> IF i = "pc_throk" THEN RosterAddr(i) ELSE 0]
  /\ \E sheet \in DamageSheets :
       heap = [a \in Addrs |->
                 IF a = RosterAddr("pc_throk") THEN Combatant("pc_throk", sheet)
                 ELSE IF a = RosterAddr("goblin_01") THEN Combatant("goblin_01", Goblin)
                 ELSE Free]
  /\ result = [op |-> "add_combatant", args |-> [id |-> "goblin_01", sheet |-> Goblin],
               err |-> OK, ret |-> [addr |-> RosterAddr("goblin_01")]]
  /\ call \in DamageCalls

NextDamage ==
  /\ call.op = "roll_damage"
  /\ roll_damage(call.attacker, call.target, call.damage_dice, call.modifier)
  /\ call' = NoCall

SpecDamage == InitDamage /\ [][NextDamage]_vars

----------------------------------------------------------------------------
(* roll_morale as a function of the morale score: a session with both       *)
(* combatants added, the PC's morale drawn from MoraleScores, one prepared  *)
(* call, every sum of two d6.                                               *)

MoraleScores == 1 .. 13

MoraleCalls == {[op |-> "roll_morale", target |-> t] : t \in Ids}

InitMorale ==
  /\ combat = [CombatState("soft") EXCEPT
                 !.combatants = [i \in Ids |-> RosterAddr(i)]]
  /\ pcs = [i \in Ids |-> IF i = "pc_throk" THEN RosterAddr(i) ELSE 0]
  /\ \E score \in MoraleScores :
       heap = [a \in Addrs |->
                 IF a = RosterAddr("pc_throk")
                 THEN Combatant("pc_throk", [Throk EXCEPT !.morale = score])
                 ELSE IF a = RosterAddr("goblin_01") THEN Combatant("goblin_01", Goblin)
                 ELSE Free]
  /\ result = [op |-> "add_combatant", args |-> [id |-> "goblin_01", sheet |-> Goblin],
               err |-> OK, ret |-> [addr |-> RosterAddr("goblin_01")]]
  /\ call \in MoraleCalls

NextMorale ==
  /\ call.op = "roll_morale"
  /\ \E r \in 0 .. 14 : roll_morale(call.target, r)
  /\ call' = NoCall

SpecMorale == InitMorale /\ [][NextMorale]_vars

----------------------------------------------------------------------------
(* The condition operations with three tags: a session with both            *)
(* combatants added, any sequence of add_condition, remove_condition,       *)
(* get_conditions.                                                          *)

ConditionTags == {"prone", "poisoned", "blinded"}

InitConditions ==
  /\ combat = [CombatState("soft") EXCEPT
                 !.combatants = [i \in Ids |-> RosterAddr(i)]]
  /\ pcs = [i \in Ids |-> IF i = "pc_throk" THEN RosterAddr(i) ELSE 0]
  /\ heap = [a \in Addrs |->
               IF a = RosterAddr("pc_throk") THEN Combatant("pc_throk", Throk)
               ELSE IF a = RosterAddr("goblin_01") THEN Combatant("goblin_01", Goblin)
               ELSE Free]
  /\ result = [op |-> "add_combatant", args |-> [id |-> "goblin_01", sheet |-> Goblin],
               err |-> OK, ret |-> [addr |-> RosterAddr("goblin_01")]]
  /\ call = NoCall

NextConditions ==
  \/ /\ \E t \in Ids, c \in ConditionTags : add_condition(t, c)
     /\ UNCHANGED call
  \/ /\ \E t \in Ids, c \in ConditionTags : remove_condition(t, c)
     /\ UNCHANGED call
  \/ /\ \E t \in Ids : get_conditions(t)
     /\ UNCHANGED call

SpecConditions == InitConditions /\ [][NextConditions]_vars

----------------------------------------------------------------------------
(* The trigger detector as functions of their arguments.  The engine is     *)
(* idle, or holds a session with both combatants added, the PC's hit points *)
(* drawn from -2 .. MaxHp.  One call is prepared; a prepared roll_save is   *)
(* followed by check_save_triggers on the roll and the needed number of the *)
(* SaveResult it returned.                                                  *)

TriggerSheets == {[Throk EXCEPT !.hp = h] : h \in -2 .. MaxHp}

\* amounts up to twice the largest hit points, and one more
Amounts == 0 .. (2 * MaxHp + 1)

\* modified totals a d20 with a modifier of RollModifiers can show
SaveTotals == (1 - MaxModifier) .. (20 + MaxModifier)

\* two entries of the saving-throw table
SaveTargets == {12, 16}

TriggerCalls ==
  {[op |-> "apply_damage", target |-> t, amount |-> n, source |-> a] :
     t \in Ids, n \in Amounts, a \in Ids}
  \cup
  {[op |-> "check_attack_triggers", raw_roll |-> r, attacker |-> a, target |-> t] :
     r \in 1 .. 20, a \in Ids, t \in Ids}
  \cup
  {[op |-> "check_save_triggers", roll |-> r, needed |-> n, character |-> c,
    save_type |-> "spells"] :
     r \in SaveTotals, n \in SaveTargets, c \in Ids}
  \cup
  {[op |-> "roll_save", target |-> t, save_type |-> c, modifier |-> m] :
     t \in Ids, c \in {"death_ray", "spells"}, m \in RollModifiers}

InitTrigger ==
  /\ \/ /\ combat = NoCombat
        /\ pcs = [i \in Ids |-> 0]
        /\ heap = [a \in Addrs |-> Free]
        /\ result = [op |-> "__init__", args |-> [none |-> TRUE], err |-> OK,
                     ret |-> [none |-> TRUE]]
     \/ /\ combat = [CombatState("soft") EXCEPT
                       !.combatants = [i \in Ids |-> RosterAddr(i)]]
        /\ pcs = [i \in Ids |-> IF i = "pc_throk" THEN RosterAddr(i) ELSE 0]
        /\ \E sheet \in TriggerSheets :
             heap = [a \in Addrs |->
                       IF a = RosterAddr("pc_throk") THEN Combatant("pc_throk", sheet)
                       ELSE IF a = RosterAddr("goblin_01")
                            THEN Combatant("goblin_01", Goblin)
                       ELSE Free]
        /\ result = [op |-> "add_combatant",
                     args |-> [id |-> "goblin_01", sheet |-> Goblin],
                     err |-> OK, ret |-> [addr |-> RosterAddr("goblin_01")]]
  /\ call \in TriggerCalls

NextTrigger ==
  \/ /\ call.op = "apply_damage"
     /\ apply_damage(call.target, call.amount, call.source)
     /\ call' = NoCall
  \/ /\ call.op = "check_attack_triggers"
     /\ check_attack_triggers(call.raw_roll, call.attacker, call.target)
     /\ call' = NoCall
  \/ /\ call.op = "check_save_triggers"
     /\ check_save_triggers(call.roll, call.needed, call.character, call.save_type)
     /\ call' = NoCall
  \/ /\ call.op = "roll_save"
     /\ \E r \in 1 .. 20 : roll_save(call.target, call.save_type, call.modifier, r)
     /\ call' = IF result'.err = OK
                THEN [op |-> "check_save_triggers", roll |-> result'.ret.roll,
                      needed |-> result'.ret.needed, character |-> call.target,
                      save_type |-> call.save_type, save |-> result'.ret]
                ELSE NoCall

SpecTrigger == InitTrigger /\ [][NextTrigger]_vars

----------------------------------------------------------------------------
(* The dice roller called directly: one prepared call of roll with a count, *)
(* a number of sides and a modifier from the sets below.                    *)

DiceCounts == -1 .. 3
DiceSides == -1 .. 4
DiceModifiers == -2 .. 2

DiceCalls ==
  {[op |-> "roll", dice |-> n, sides |-> k, modifier |-> m] :
     n \in DiceCounts, k \in DiceSides, m \in DiceModifiers}

\* a call of roll(dice, sides, modifier): it returns one of the values roll
\* can return, or raises where random.randint raises
dice_roll(dice, sides, modifier) ==
  LET args == [dice |-> dice, sides |-> sides, modifier |-> modifier] IN
  IF roll(dice, sides, modifier) = {}
  THEN Raise("roll", args, InvalidDice)
  ELSE /\ \E total \in roll(dice, sides, modifier) :
            Return("roll", args, [total |-> total])
       /\ UNCHANGED <<combat, pcs, heap>>

InitDice ==
  /\ combat = NoCombat
  /\ pcs = [i \in Ids |-> 0]
  /\ heap = [a \in Addrs |-> Free]
  /\ result = [op |-> "__init__", args |-> [none |-> TRUE], err |-> OK,
               ret |-> [none |-> TRUE]]
  /\ call \in DiceCalls

NextDice ==
  /\ call.op = "roll"
  /\ dice_roll(call.dice, call.sides, call.modifier)
  /\ call' = NoCall

SpecDice == InitDice /\ [][NextDice]_vars

----------------------------------------------------------------------------
(* roll_save as a function of the class name and the level: a session with  *)
(* both combatants added, the PC's class and level drawn from the sets      *)
(* below, one prepared roll_save of the PC, every face of the die.          *)

ClassNames ==
  {Fighter, Cleric, Thief, MagicUser,
   <<"f", "i", "g", "h", "t", "e", "r">>, <<"C", "L", "E", "R", "I", "C">>,
   <<"t", "h", "i", "e", "f">>, <<"g", "o", "b", "l", "i", "n">>, <<>>}

Levels == -1 .. (MaxTableLevel + 2)

SaveSheets ==
  {[Throk EXCEPT !.char_class = c, !.level = l] : c \in ClassNames, l \in Levels}

SaveCalls ==
  {[op |-> "roll_save", target |-> "pc_throk", save_type |-> c, modifier |-> 0] :
     c \in valid_save_types}

InitSave ==
  /\ combat = [CombatState("soft") EXCEPT
                 !.combatants = [i \in Ids |-> RosterAddr(i)]]
  /\ pcs = [i \in Ids |-> IF i = "pc_throk" THEN RosterAddr(i) ELSE 0]
  /\ \E sheet \in SaveSheets :
       heap = [a \in Addrs |->
                 IF a = RosterAddr("pc_throk") THEN Combatant("pc_throk", sheet)
                 ELSE IF a = RosterAddr("goblin_01") THEN Combatant("goblin_01", Goblin)
                 ELSE Free]
  /\ result = [op |-> "add_combatant", args |-> [id |-> "goblin_01", sheet |-> Goblin],
               err |-> OK, ret |-> [addr |-> RosterAddr("goblin_01")]]
  /\ call \in SaveCalls

NextSave ==
  /\ call.op = "roll_save"
  /\ \E r \in 1 .. 20 : roll_save(call.target, call.save_type, call.modifier, r)
  /\ call' = NoCall

SpecSave == InitSave /\ [][NextSave]_vars

----------------------------------------------------------------------------
(* The lifecycle operations with any text as the style of start_combat.     *)

LifecycleStyles == {"soft", "strict", "chaotic", ""}

NextLifecycle ==
  \/ /\ \E style \in LifecycleStyles : start_combat(style)
     /\ UNCHANGED call
  \/ /\ \E a \in AddArgs : add_combatant(a[1], a[2])
     /\ UNCHANGED call
  \/ /\ end_combat
     /\ UNCHANGED call
  \/ /\ get_combat_status
     /\ UNCHANGED call

SpecLifecycle == Init /\ [][NextLifecycle]_vars

----------------------------------------------------------------------------
(* roll_damage_tool called any number of times in one session: a session    *)
(* with both combatants added and alive, the PC's hit points drawn from     *)
(* 1 .. MaxHp.                                                              *)

ToolDiceArgs == {NoDice, <<"2", "d", "2", "+", "1">>}

InitKill ==
  /\ combat = [CombatState("soft") EXCEPT
                 !.combatants = [i \in Ids |-> RosterAddr(i)]]
  /\ pcs = [i \in Ids |-> IF i = "pc_throk" THEN RosterAddr(i) ELSE 0]
  /\ \E sheet \in {s \in TriggerSheets : s.hp > 0} :
       heap = [a \in Addrs |->
                 IF a = RosterAddr("pc_throk") THEN Combatant("pc_throk", sheet)
                 ELSE IF a = RosterAddr("goblin_01")
                      THEN Combatant("goblin_01", [Goblin EXCEPT !.hp = Goblin.hp_max])
                 ELSE Free]
  /\ result = [op |-> "add_combatant",
               args |-> [id |-> "goblin_01", sheet |-> [Goblin EXCEPT !.hp = Goblin.hp_max]],
               err |-> OK, ret |-> [addr |-> RosterAddr("goblin_01")]]
  /\ call = NoCall

NextKill ==
  /\ \E a \in Ids, t \in Ids, d \in ToolDiceArgs, m \in Modifiers :
       roll_damage_tool(a, t, d, m)
  /\ \A x \in Addrs :
       IF heap'[x] = Free THEN TRUE ELSE heap'[x].hp >= 0 - MaxOverkill

SpecKill == InitKill /\ [][NextKill]_vars

----------------------------------------------------------------------------
(* roll_attack_tool called once, for every pair of combatants, every        *)
(* modifier in -MaxModifier .. MaxModifier and every face of the die.       *)

AttackToolCalls ==
  {[op |-> "roll_attack_tool", attacker |-> a, target |-> t, modifier |-> m] :
     a \in Ids, t \in Ids, m \in RollModifiers}

InitAttackTool ==
  /\ combat = [CombatState("soft") EXCEPT
                 !.combatants = [i \in Ids |-> RosterAddr(i)]]
  /\ pcs = [i \in Ids |-> IF i = "pc_throk" THEN RosterAddr(i) ELSE 0]
  /\ heap = [a \in Addrs |->
               IF a = RosterAddr("pc_throk") THEN Combatant("pc_throk", Throk)
               ELSE IF a = RosterAddr("goblin_01") THEN Combatant("goblin_01", Goblin)
               ELSE Free]
  /\ result = [op |-> "add_combatant", args |-> [id |-> "goblin_01", sheet |-> Goblin],
               err |-> OK, ret |-> [addr |-> RosterAddr("goblin_01")]]
  /\ call \in AttackToolCalls

NextAttackTool ==
  /\ call.op = "roll_attack_tool"
  /\ \E r \in 1 .. 20 :
       roll_attack_tool(call.attacker, call.target, call.modifier, r)

SpecAttackTool == InitAttackTool /\ [][NextAttackTool]_vars

----------------------------------------------------------------------------
(* add_combatant at the start of a second encounter: the registry holds     *)
(* pc_throk as an earlier end_combat left it (hit points in -2 .. MaxHp,    *)
(* any set of conditions), a new session has been started, and one          *)
(* add_combatant call is prepared.                                          *)

SecondEncounterCalls ==
  {[op |-> "add_combatant", id |-> i, sheet |-> s] :
     i \in Ids, s \in {t \in TriggerSheets : t.hp > 0} \cup {Goblin}}

InitSecondEncounter ==
  /\ \E style \in Styles :
       /\ combat = CombatState(style)
       /\ result = [op |-> "start_combat", args |-> [style |-> style],
                    err |-> OK, ret |-> [none |-> TRUE]]
  /\ pcs = [i \in Ids |-> IF i = "pc_throk" THEN KeptAddr(i) ELSE 0]
  /\ \E sheet \in TriggerSheets, cs \in SUBSET ConditionTags :
       heap = [a \in Addrs |->
                 IF a = KeptAddr("pc_throk")
                 THEN [Combatant("pc_throk", sheet) EXCEPT !.conditions = cs]
                 ELSE Free]
  /\ call \in SecondEncounterCalls

NextSecondEncounter ==
  /\ call.op = "add_combatant"
  /\ add_combatant(call.id, call.sheet)
  /\ call' = NoCall

SpecSecondEncounter == InitSecondEncounter /\ [][NextSecondEncounter]_vars

----------------------------------------------------------------------------
(* Properties *)

\* the engine's state is left as it was: same references, same objects
Untouched == combat' = combat /\ pcs' = pcs /\ heap' = heap

\* the engine part of InitRoll is a state the engine reaches
InitRollConfiguration ==
  /\ combat = [CombatState("soft") EXCEPT
                 !.combatants = [i \in Ids |-> RosterAddr(i)]]
  /\ pcs = [i \in Ids |-> IF i = "pc_throk" THEN RosterAddr(i) ELSE 0]
  /\ Get("pc_throk") = Combatant("pc_throk", Throk)
  /\ Get("goblin_01") = Combatant("goblin_01", Goblin)
  /\ result.op = "add_combatant" /\ result.args.id = "goblin_01"

\* C1: the engine starts idle; start_combat in the idle state creates the
\* session with the given mode, round 1 and an empty roster; start_combat
\* while a session is active fails with CombatAlreadyActive and leaves the
\* session (roster, hit points, conditions, round, mode) and the PC registry
\* unchanged, so a second start never resets the running session.
C1_StartStep ==
  result'.op = "start_combat" =>
    IF combat = NoCombat
    THEN /\ result'.err = OK
         /\ combat' = [combatants |-> [i \in Ids |-> 0],
                       initiative_order |-> <<>>, current_turn |-> None,
                       round_number |-> 1,
                       combat_style |-> result'.args.style]
         /\ pcs' = pcs /\ heap' = heap
    ELSE /\ result'.err = CombatAlreadyActive
         /\ Untouched

C1_StartCombat == (combat = NoCombat) /\ [][C1_StartStep]_vars

\* a second start was refused while a combatant carried damage and a condition
C1_Witness ==
  /\ result.op = "start_combat"
  /\ result.err = CombatAlreadyActive
  /\ result.args.style # combat.combat_style
  /\ \E i \in Roster : Get(i).hp < 0 /\ Get(i).conditions # {}

\* C2: in the idle state add_combatant, end_combat, the five rolls and the
\* three condition operations fail with NoActiveCombat for every argument;
\* the engine stays idle and the PC registry is unchanged.
IdleFailing ==
  {"add_combatant", "end_combat", "roll_attack", "roll_damage", "roll_save",
   "roll_ability_check", "roll_morale", "add_condition", "remove_condition",
   "get_conditions"}

C2_IdleStep ==
  (combat = NoCombat /\ result'.op \in IdleFailing) =>
    /\ result'.err = NoActiveCombat
    /\ result'.ret = [none |-> TRUE]
    /\ Untouched

C2_IdleFails == [][C2_IdleStep]_vars

\* add_combatant of a PC was refused in the idle state and the registry is
\* still empty
C2_Witness ==
  /\ combat = NoCombat
  /\ result.op = "add_combatant"
  /\ result.err = NoActiveCombat
  /\ result.args.sheet.is_pc
  /\ pcs[result.args.id] = 0
  /\ Registered = {}

\* the ids a resolution or condition call names
NamedIds(r) ==
  IF r.op \in {"roll_attack", "roll_damage"}
  THEN {r.args.attacker, r.args.target}
  ELSE {r.args.target}

ByIdOps ==
  {"roll_attack", "roll_damage", "roll_save", "roll_ability_check",
   "roll_morale", "add_condition", "remove_condition", "get_conditions"}

\* C3: in the active state a resolution or condition operation naming an id
\* that is not in the roster fails with CombatantNotFound, returns nothing
\* and leaves session and registry unchanged; for roll_attack and roll_damage
\* also when only one of the two ids is absent.
C3_AbsentStep ==
  (/\ combat # NoCombat
   /\ result'.op \in ByIdOps
   /\ ~(NamedIds(result') \subseteq Roster)) =>
    /\ result'.err = CombatantNotFound
    /\ result'.ret = [none |-> TRUE]
    /\ Untouched

C3_AbsentIdFails == [][C3_AbsentStep]_vars

\* roll_damage by a present attacker, with a notation that rolls, against an
\* absent target was refused
C3_Witness ==
  /\ combat # NoCombat
  /\ result.op = "roll_damage"
  /\ result.err = CombatantNotFound
  /\ result.args.attacker \in Roster
  /\ result.args.target \notin Roster
  /\ result.args.damage_dice # NoDice

\* C4: add_combatant with an id already in the roster fails with
\* DuplicateCombatant; the combatant stored under that id and the PC registry
\* are exactly as before, also when the second call is marked PC and the
\* first was not.
C4_DuplicateStep ==
  (/\ combat # NoCombat
   /\ result'.op = "add_combatant"
   /\ result'.args.id \in Roster) =>
    /\ result'.err = DuplicateCombatant
    /\ result'.ret = [none |-> TRUE]
    /\ Untouched

C4_DuplicateFails == [][C4_DuplicateStep]_vars

\* a PC-marked add was refused for an id the roster holds as an NPC
C4_Witness ==
  /\ combat # NoCombat
  /\ result.op = "add_combatant"
  /\ result.err = DuplicateCombatant
  /\ result.args.sheet.is_pc
  /\ result.args.id \in Roster
  /\ ~Get(result.args.id).is_pc
  /\ Get(result.args.id).name # result.args.sheet.name
  /\ pcs[result.args.id] = 0

\* C5: a successful add_combatant adds exactly one roster entry under the
\* given id, with the caller's fields and no conditions, and leaves every
\* other roster entry unchanged; the registry gets (or replaces) the entry of
\* that id iff the combatant is a PC and is unchanged for an NPC.
C5_AddStep ==
  (result'.op = "add_combatant" /\ result'.err = OK) =>
    LET id == result'.args.id
        sheet == result'.args.sheet
    IN /\ id \notin Roster
       /\ combat'.combatants[id] # 0
       /\ heap'[combat'.combatants[id]] =
            [id |-> id, name |-> sheet.name, hp |-> sheet.hp,
             hp_max |-> sheet.hp_max, ac |-> sheet.ac, thac0 |-> sheet.thac0,
             damage_dice |-> sheet.damage_dice, char_class |-> sheet.char_class,
             level |-> sheet.level, morale |-> sheet.morale,
             conditions |-> {}, is_pc |-> sheet.is_pc]
       /\ result'.ret.addr = combat'.combatants[id]
       /\ \A j \in Ids \ {id} :
            /\ combat'.combatants[j] = combat.combatants[j]
            /\ j \in Roster => heap'[combat.combatants[j]] = heap[combat.combatants[j]]
       /\ combat'.round_number = combat.round_number
       /\ combat'.combat_style = combat.combat_style
       /\ combat'.initiative_order = combat.initiative_order
       /\ combat'.current_turn = combat.current_turn
       /\ \A j \in Ids \ {id} :
            /\ pcs'[j] = pcs[j]
            /\ pcs[j] # 0 => heap'[pcs[j]] = heap[pcs[j]]
       /\ IF sheet.is_pc
          THEN pcs'[id] = combat'.combatants[id]
          ELSE /\ pcs'[id] = pcs[id]
               /\ pcs[id] # 0 => heap'[pcs[id]] = heap[pcs[id]]

C5_AddSucceeds == [][C5_AddStep]_vars

\* a PC was added beside an NPC that carries damage and a condition
C5_Witness ==
  /\ result.op = "add_combatant"
  /\ result.err = OK
  /\ result.args.sheet.is_pc
  /\ Roster = Ids
  /\ \E j \in Roster : ~Get(j).is_pc /\ Get(j).hp < 0 /\ Get(j).conditions # {}

\* C6: end_combat in the active state moves the engine to idle and returns
\* combatants = roster size, survivors = number with hp > 0, casualties =
\* number with hp <= 0, rounds = the round counter; survivors + casualties =
\* combatants.
C6_EndStep ==
  (result'.op = "end_combat" /\ combat # NoCombat) =>
    /\ result'.err = OK
    /\ combat' = NoCombat
    /\ result'.ret.combatants = Cardinality({i \in Ids : combat.combatants[i] # 0})
    /\ result'.ret.survivors =
         Cardinality({i \in Ids : combat.combatants[i] # 0
                                  /\ heap[combat.combatants[i]].hp > 0})
    /\ result'.ret.casualties =
         Cardinality({i \in Ids : combat.combatants[i] # 0
                                  /\ heap[combat.combatants[i]].hp <= 0})
    /\ result'.ret.rounds = combat.round_number
    /\ result'.ret.survivors + result'.ret.casualties = result'.ret.combatants

C6_EndSummary == [][C6_EndStep]_vars

\* a session of one surviving PC and one casualty ended
C6_Witness ==
  /\ result.op = "end_combat"
  /\ result.err = OK
  /\ combat = NoCombat
  /\ result.ret.combatants = 2
  /\ result.ret.survivors = 1
  /\ result.ret.casualties = 1
  /\ \E i \in Registered : Pc(i).hp > 0

\* the parts of C7 that do not concern NPC ids: PCs of the ended session are
\* in the registry with their final state, get_combatant finds nothing while
\* idle, start_combat keeps the registry
C7_CommonStep ==
  /\ (result'.op = "end_combat" /\ result'.err = OK) =>
       \A i \in Roster :
         Get(i).is_pc =>
           /\ pcs'[i] # 0
           /\ heap'[pcs'[i]].hp = Get(i).hp
           /\ heap'[pcs'[i]].conditions = Get(i).conditions
           /\ heap'[pcs'[i]] = Get(i)
  /\ (result'.op = "get_combatant" /\ combat = NoCombat) =>
       result'.ret.addr = 0
  /\ (result'.op = "start_combat" /\ result'.err = OK) =>
       /\ pcs' = pcs
       /\ \A i \in Registered : heap'[pcs'[i]] = Pc(i)

\* C7 as stated: after end_combat every PC of the ended session is in the
\* registry with its final hit points and conditions, no NPC id of the ended
\* session is in the registry, get_combatant returns not-found for every id,
\* and the entries are still there after a following start_combat.
C7_AsStated ==
  [][/\ C7_CommonStep
     /\ (result'.op = "end_combat" /\ result'.err = OK) =>
          \A i \in Roster : ~Get(i).is_pc => pcs'[i] = 0]_vars

\* C7 amended: as C7, but for an NPC id of the ended session the registry
\* entry is what it was before end_combat: absent, or the snapshot an earlier
\* session registered under that id for a PC.
C7_EndPersistsPcs ==
  [][/\ C7_CommonStep
     /\ (result'.op = "end_combat" /\ result'.err = OK) =>
          \A i \in Roster :
            ~Get(i).is_pc =>
              /\ (pcs'[i] = 0) = (pcs[i] = 0)
              /\ pcs[i] # 0 => heap'[pcs'[i]] = Pc(i)]_vars

\* a session ended in which a PC had taken damage and a condition, and its
\* registry entry shows both
C7_Witness ==
  /\ result.op = "end_combat"
  /\ result.err = OK
  /\ result.ret.combatants = 2
  /\ \E i \in Registered : Pc(i).hp < Throk.hp /\ Pc(i).conditions # {}

\* C8: get_combat_status and get_combatant never fail; in the idle state they
\* return the empty result, in the active state get_combatant returns
\* not-found for an absent id; neither changes session or registry.
C8_QueryStep ==
  /\ result'.op = "get_combat_status" =>
       /\ result'.err = OK
       /\ Untouched
       /\ (combat = NoCombat) = (result'.ret = [none |-> TRUE])
  /\ result'.op = "get_combatant" =>
       /\ result'.err = OK
       /\ Untouched
       /\ result'.ret.addr =
            IF combat = NoCombat THEN 0 ELSE combat.combatants[result'.args.id]

C8_QueriesNeverFail == [][C8_QueryStep]_vars

\* get_combatant returned not-found in an active session for an id that is
\* not in the roster but is in the registry
C8_Witness ==
  /\ result.op = "get_combatant"
  /\ result.err = OK
  /\ combat # NoCombat
  /\ result.args.id \notin Roster
  /\ result.args.id \in Registered
  /\ result.ret.addr = 0

\* the three d20 resolutions, and the outcome field of their results
D20Ops == {"roll_attack", "roll_save", "roll_ability_check"}

Outcome(r) == IF r.op = "roll_attack" THEN r.ret.hit ELSE r.ret.success

\* C9: for roll_attack, roll_save and roll_ability_check, whatever the
\* modifier and the needed number, a raw d20 of 1 gives miss/failure and a raw
\* d20 of 20 gives hit/success, and the reported roll is raw + modifier.
C9_NaturalRolls ==
  (result.op \in D20Ops /\ result.err = OK) =>
    /\ result.ret.raw = 1 =>
         /\ ~Outcome(result)
         /\ result.ret.roll = 1 + result.args.modifier
    /\ result.ret.raw = 20 =>
         /\ Outcome(result)
         /\ result.ret.roll = 20 + result.args.modifier

\* a save failed on a natural 1 although the modified roll reached the target
C9_Witness ==
  /\ result.op = "roll_save"
  /\ result.err = OK
  /\ result.ret.raw = 1
  /\ result.ret.roll >= result.ret.needed
  /\ ~result.ret.success

\* the needed number of a d20 resolution, from the state and the arguments
NeededFor(r) ==
  IF r.op = "roll_attack"
  THEN heap[combat.combatants[r.args.attacker]].thac0
         - heap[combat.combatants[r.args.target]].ac
  ELSE IF r.op = "roll_save"
  THEN get_saving_throw(heap[combat.combatants[r.args.target]].char_class,
                        heap[combat.combatants[r.args.target]].level,
                        r.args.save_type)
  ELSE r.args.difficulty

\* C10: for a raw d20 in 2..19 the outcome is exactly raw + modifier >= needed
\* (equality succeeds), with needed = attacker.thac0 - target.ac for
\* roll_attack, the table target for roll_save and the difficulty for
\* roll_ability_check; the result reports roll = raw + modifier, that needed
\* and the caller's modifier.
C10_OrdinaryRolls ==
  (result.op \in D20Ops /\ result.err = OK /\ result.ret.raw \in 2 .. 19) =>
    /\ Outcome(result) =
         (result.ret.raw + result.args.modifier >= NeededFor(result))
    /\ result.ret.roll = result.ret.raw + result.args.modifier
    /\ result.ret.needed = NeededFor(result)
    /\ result.ret.modifier = result.args.modifier

\* an attack with a negative modifier hit by meeting the needed number exactly
C10_Witness ==
  /\ result.op = "roll_attack"
  /\ result.err = OK
  /\ result.ret.raw \in 2 .. 19
  /\ result.args.modifier < 0
  /\ result.ret.roll = result.ret.needed
  /\ result.ret.hit

\* the categories and abilities the rules name
C11_Categories == {"death_ray", "wands", "paralysis", "breath", "spells"}
C11_Abilities == {"str", "dex", "con", "int", "wis", "cha"}

\* C11: for a target in the roster, roll_save with a category outside the
\* five fails with InvalidSaveCategory and roll_ability_check with an ability
\* outside the six fails with InvalidAbility, returning nothing and leaving
\* session and registry unchanged; each of the five categories and each of
\* the six abilities is accepted (the call returns a result).
C11_TagStep ==
  /\ (/\ combat # NoCombat
      /\ result'.op = "roll_save"
      /\ result'.args.target \in Roster) =>
       IF result'.args.save_type \in C11_Categories
       THEN result'.err = OK
       ELSE /\ result'.err = InvalidSaveCategory
            /\ result'.ret = [none |-> TRUE]
            /\ Untouched
  /\ (/\ combat # NoCombat
      /\ result'.op = "roll_ability_check"
      /\ result'.args.target \in Roster) =>
       IF result'.args.ability \in C11_Abilities
       THEN result'.err = OK
       ELSE /\ result'.err = InvalidAbility
            /\ result'.ret = [none |-> TRUE]
            /\ Untouched

C11_TagsValidated == [][C11_TagStep]_vars

\* a save against "Spells" (the category in another case) was refused for a
\* combatant of the roster
C11_Witness ==
  /\ result.op = "roll_save"
  /\ result.err = InvalidSaveCategory
  /\ result.args.save_type = "Spells"
  /\ result.args.target \in Roster

\* count, sides and built-in modifier of the notations that roll
C12_Dice(notation) ==
  CASE notation = <<"1", "d", "2">> -> [count |-> 1, sides |-> 2, bonus |-> 0]
    [] notation = <<"2", "d", "2", "+", "1">> -> [count |-> 2, sides |-> 2, bonus |-> 1]
    [] notation = <<"D", "1", " ", "-", "3">> -> [count |-> 1, sides |-> 1, bonus |-> -3]
    [] notation = <<"d", "3">> -> [count |-> 1, sides |-> 3, bonus |-> 0]
    [] notation = <<"0", "d", "6">> -> [count |-> 0, sides |-> 6, bonus |-> 0]

\* C12: a roll_damage that returns deals damage = max(1, dice sum + the
\* notation's built-in modifier + the caller's modifier), with the notation
\* passed if there is one and the attacker's default otherwise; the target's
\* hit points become old hp - damage, below zero if need be; target_hp is the
\* stored value; nothing else changes, no other combatant's hit points.
C12_DamageStep ==
  (result'.op = "roll_damage" /\ result'.err = OK) =>
    LET args == result'.args
        notation == IF args.damage_dice # NoDice THEN args.damage_dice
                    ELSE Get(args.attacker).damage_dice
        d == C12_Dice(notation)
        a == combat.combatants[args.target]
        damage == result'.ret.damage
    IN /\ \E sum \in d.count .. (d.count * d.sides) :
            LET total == sum + d.bonus + args.modifier
            IN damage = IF total < 1 THEN 1 ELSE total
       /\ heap' = [heap EXCEPT ![a].hp = heap[a].hp - damage]
       /\ result'.ret.target_hp = heap'[a].hp
       /\ combat' = combat
       /\ pcs' = pcs

C12_DamageDealt == [][C12_DamageStep]_vars

\* the PC, whose default is 1d2, rolled 2d2+1 with modifier -3: the total was
\* below 1, 1 point was dealt and the target went below zero
C12_Witness ==
  /\ result.op = "roll_damage"
  /\ result.err = OK
  /\ result.args.attacker = "pc_throk"
  /\ result.args.damage_dice = <<"2", "d", "2", "+", "1">>
  /\ result.args.modifier = -3
  /\ result.ret.damage = 1
  /\ result.ret.target_hp < 0
  /\ Get(result.args.target).hp = result.ret.target_hp

\* C13: the status roll_damage returns is decided by the target's resulting
\* hp and hp_max alone, in this order: dead if hp <= 0; else critical if
\* hp = 1, also when 1 is more than half of hp_max; else healthy if
\* 2 * hp > hp_max; else wounded (so hp exactly half of hp_max is wounded).
\* The label is one of the four, and exactly one of the four cases applies.
C13_StatusLabel ==
  (result.op = "roll_damage" /\ result.err = OK) =>
    LET hp == Get(result.args.target).hp
        hp_max == Get(result.args.target).hp_max
        status == result.ret.status
    IN /\ result.ret.target_hp = hp
       /\ result.ret.target_hp_max = hp_max
       /\ status \in {"dead", "critical", "healthy", "wounded"}
       /\ (status = "dead") = (hp <= 0)
       /\ (status = "critical") = (hp = 1)
       /\ (status = "healthy") = (hp > 1 /\ 2 * hp > hp_max)
       /\ (status = "wounded") = (hp > 1 /\ 2 * hp <= hp_max)

\* a target with hp_max 1 was left at 1 hit point, more than half of its
\* maximum, and is reported critical
C13_Witness ==
  /\ result.op = "roll_damage"
  /\ result.err = OK
  /\ result.ret.target_hp = 1
  /\ result.ret.target_hp_max = 1
  /\ result.ret.status = "critical"

\* what the rules say of a notation: a count or a number of sides below 1
\* is invalid dice, a text outside [count]d<sides>[+|-modifier] is invalid
\* notation, the empty text is missing dice
C14_Expected(notation) ==
  CASE notation = <<>> -> MissingDamageDice
    [] notation \in {<<"2", "x", "6">>, <<"1", "d", "2", "+">>} -> InvalidNotation
    [] notation \in {<<"0", "d", "6">>, <<"1", "d", "0">>} -> InvalidDice
    [] OTHER -> OK

\* C14: roll_damage between two combatants of the roster fails with
\* MissingDamageDice when no notation is passed and the attacker's default is
\* empty or the notation passed is empty, with InvalidNotation when the
\* notation is outside the dice grammar, with InvalidDice when its count or
\* its sides is below 1; a failing roll_damage deals no damage and leaves
\* hit points, session and registry unchanged.
C14_FailingStep ==
  (/\ combat # NoCombat
   /\ result'.op = "roll_damage"
   /\ {result'.args.attacker, result'.args.target} \subseteq Roster) =>
    LET args == result'.args
        notation == IF args.damage_dice # NoDice THEN args.damage_dice
                    ELSE Get(args.attacker).damage_dice
    IN /\ result'.err = C14_Expected(notation)
       /\ result'.err # OK => Untouched /\ result'.ret = [none |-> TRUE]

C14_AsStated == [][C14_FailingStep]_vars

\* C15: roll_morale reports a roll in 2 .. 12 (two d6); holds is true exactly
\* when roll <= the combatant's morale score, a roll equal to the score
\* included, and neither 2 nor 12 overrides the comparison; needed is the
\* morale score; session, hit points, conditions and registry are unchanged.
C15_MoraleStep ==
  (result'.op = "roll_morale" /\ result'.err = OK) =>
    LET score == Get(result'.args.target).morale
    IN /\ result'.ret.roll \in 2 .. 12
       /\ result'.ret.holds = (result'.ret.roll <= score)
       /\ result'.ret.needed = score
       /\ Untouched

C15_Morale == [][C15_MoraleStep]_vars

\* a combatant of morale 12 rolled 12 and holds
C15_Witness ==
  /\ result.op = "roll_morale"
  /\ result.err = OK
  /\ result.ret.roll = 12
  /\ Get(result.args.target).morale = 12
  /\ result.ret.holds

C16_Ops == {"add_condition", "remove_condition", "get_conditions"}

\* C16: for a combatant of the roster the three condition operations never
\* fail; add_condition leaves a set that already holds the tag as it is;
\* remove_condition leaves a set without the tag as it is and otherwise
\* yields the set without the tag; get_conditions lists each tag of the set
\* exactly once; nothing of any other combatant changes.
C16_ConditionStep ==
  (/\ combat # NoCombat
   /\ result'.op \in C16_Ops
   /\ result'.args.target \in Roster) =>
    LET a == combat.combatants[result'.args.target]
        before == heap[a].conditions
    IN /\ result'.err = OK
       /\ combat' = combat
       /\ pcs' = pcs
       /\ \A x \in Addrs \ {a} : heap'[x] = heap[x]
       /\ result'.op = "add_condition" =>
            /\ heap'[a] = [heap[a] EXCEPT !.conditions = before \cup {result'.args.condition}]
            /\ result'.args.condition \in before => heap' = heap
       /\ result'.op = "remove_condition" =>
            /\ heap'[a] = [heap[a] EXCEPT !.conditions = before \ {result'.args.condition}]
            /\ result'.args.condition \notin heap'[a].conditions
            /\ result'.args.condition \notin before => heap' = heap
       /\ result'.op = "get_conditions" =>
            LET q == result'.ret.conditions
            IN /\ heap' = heap
               /\ Len(q) = Cardinality(before)
               /\ {q[i] : i \in 1 .. Len(q)} = before

C16_Conditions == [][C16_ConditionStep]_vars

\* get_conditions listed the two tags of one combatant while the other
\* combatant holds one of them only
C16_Witness ==
  /\ result.op = "get_conditions"
  /\ result.err = OK
  /\ Len(result.ret.conditions) = 2
  /\ Get(result.args.target).conditions = {"prone", "poisoned"}
  /\ \E i \in Roster : Get(i).conditions = {"poisoned"}

\* C17: apply_damage lowers the target's hit points by the amount; kill is
\* yielded exactly when the hit points were > 0 before and are <= 0 after;
\* overkill is yielded only together with kill and only when the amount is
\* at least twice the hit points before; a target already at or below 0
\* yields neither.
C17_ApplyStep ==
  (result'.op = "apply_damage" /\ result'.err = OK) =>
    LET a == combat.combatants[result'.args.target]
        before == heap[a].hp
        after == heap'[a].hp
        amount == result'.args.amount
        triggers == result'.ret.triggers
    IN /\ after = before - amount
       /\ result'.ret.new_hp = after
       /\ ("kill" \in triggers) = (before > 0 /\ after <= 0)
       /\ "overkill" \in triggers => ("kill" \in triggers /\ amount >= 2 * before)
       /\ before <= 0 => triggers = {}

C17_KillOverkill == [][C17_ApplyStep]_vars

\* an amount of exactly twice the hit points before the hit killed the target
\* and was an overkill
C17_Witness ==
  /\ result.op = "apply_damage"
  /\ result.err = OK
  /\ result.ret.triggers = {"kill", "overkill"}
  /\ result.args.amount = 2 * (result.ret.new_hp + result.args.amount)
  /\ Get(result.args.target).hp = result.ret.new_hp

\* C18: whatever the raw d20, the modifier and the needed number of a
\* roll_save, check_save_triggers called with the roll and the needed number
\* that the SaveResult reports yields clutch_save only if the SaveResult's
\* success is true: a failed save is never flagged.
C18_ClutchStep ==
  (/\ call.op = "check_save_triggers"
   /\ "save" \in DOMAIN call
   /\ result'.op = "check_save_triggers") =>
    ("clutch_save" \in result'.ret.triggers => call.save.success)

C18_AsStated == [][C18_ClutchStep]_vars

\* C19: check_save_triggers yields clutch_save if and only if
\* 0 <= roll - needed <= 2 (margins 0, 1 and 2; not 3 or more, not a negative
\* margin); it returns with or without an active session and changes
\* nothing.
C19_SaveTriggerStep ==
  (result'.op = "check_save_triggers") =>
    LET margin == result'.args.roll - result'.args.needed
    IN /\ result'.err = OK
       /\ ("clutch_save" \in result'.ret.triggers) = (margin \in {0, 1, 2})
       /\ result'.ret.triggers \subseteq {"clutch_save"}
       /\ Untouched

C20_AttackTriggerStep ==
  (result'.op = "check_attack_triggers") =>
    LET raw == result'.args.raw_roll
        triggers == result'.ret.triggers
    IN /\ result'.err = OK
       /\ ("crit_hit" \in triggers) = (raw = 20)
       /\ ("crit_fail" \in triggers) = (raw = 1)
       /\ ~({"crit_hit", "crit_fail"} \subseteq triggers)
       /\ raw \in 2 .. 19 => triggers = {}
       /\ Untouched

C20_Crits == [][C20_AttackTriggerStep]_vars

\* in a session, a raw 20 was flagged as a critical hit and nothing else
C20_Witness ==
  /\ combat # NoCombat
  /\ result.op = "check_attack_triggers"
  /\ result.err = OK
  /\ result.args.raw_roll = 20
  /\ result.ret.triggers = {"crit_hit"}
  /\ result.args.attacker # result.args.target

\* C21: roll(count, sides, modifier) fails with InvalidDice whenever
\* count < 1 or sides < 1, whatever the modifier, and returns no value then;
\* a roll of zero dice does not return the bare modifier.
C21_InvalidDiceStep ==
  (/\ result'.op = "roll"
   /\ (result'.args.dice < 1 \/ result'.args.sides < 1)) =>
    /\ result'.err = InvalidDice
    /\ result'.ret = [none |-> TRUE]

C21_AsStated == [][C21_InvalidDiceStep]_vars

\* a class name in lower case
C22_Lower(name) == [i \in 1 .. Len(name) |-> LowerChar(name[i])]

\* the tabulated class a name stands for, letter case aside; Fighter for any
\* other name
C22_Class(name) ==
  IF \E c \in {Fighter, Cleric, Thief, MagicUser} : C22_Lower(c) = C22_Lower(name)
  THEN CHOOSE c \in {Fighter, Cleric, Thief, MagicUser} : C22_Lower(c) = C22_Lower(name)
  ELSE Fighter

\* a level clamped into 1 .. 6, the levels of the table
C22_Level(level) == IF level > 6 THEN 6 ELSE IF level < 1 THEN 1 ELSE level

\* C22: the needed number of a roll_save is the entry of the rule table for
\* the category, in the row of the combatant's own class if it is Fighter,
\* Cleric, Thief or Magic-User and in the Fighter row for any other class
\* name, at the level clamped into the levels of the table.
C22_AsStated ==
  (result.op = "roll_save" /\ result.err = OK) =>
    LET c == Get(result.args.target)
    IN result.ret.needed =
         SAVING_THROWS(C22_Class(c.char_class), C22_Level(c.level))[result.args.save_type]

\* C23: the registry is written by add_combatant (of a PC) and by end_combat
\* only: every other operation, roll_damage, add_condition and
\* remove_condition on a PC of the session among them, leaves the registry
\* with the same ids and every registered PC with the same hit points,
\* conditions and other fields.
C23_RegistryStep ==
  (result'.op \notin {"add_combatant", "end_combat"}) =>
    /\ {i \in Ids : pcs'[i] # 0} = Registered
    /\ \A i \in Registered : heap'[pcs'[i]] = Pc(i)

C23_AsStated == [][C23_RegistryStep]_vars

\* C24: while a session lasts, every id of the roster keeps naming the one
\* object add_combatant stored under it (no operation removes, replaces or
\* renames a roster entry), two ids never name the same object, and only hit
\* points and conditions of that object change: hp_max and the other fields
\* are as created, whatever damage and condition operations have run.
C24_RosterStep ==
  /\ (combat # NoCombat /\ combat' # NoCombat) =>
       \A i \in Roster :
         LET a == combat.combatants[i]
         IN /\ combat'.combatants[i] = a
            /\ heap'[a].id = i
            /\ heap'[a].hp_max = heap[a].hp_max
            /\ [heap'[a] EXCEPT !.hp = 0, !.conditions = {}] =
                 [heap[a] EXCEPT !.hp = 0, !.conditions = {}]
  /\ combat' # NoCombat =>
       \A i, j \in {k \in Ids : combat'.combatants[k] # 0} :
         /\ heap'[combat'.combatants[i]].id = i
         /\ i # j => combat'.combatants[i] # combat'.combatants[j]

C24_RosterStable == [][C24_RosterStep]_vars

\* a combatant of the roster has been damaged below zero and carries a
\* condition, with hp_max as on its sheet
C24_Witness ==
  /\ combat # NoCombat
  /\ \E i \in Roster :
       /\ Get(i).hp < 0
       /\ Get(i).conditions # {}
       /\ Get(i).hp_max = Throk.hp_max
       /\ Get(i).id = i
  /\ result.op = "roll_damage"
  /\ result.err = OK

\* C25: in every active state the mode of the session is "soft" or "strict";
\* start_combat creates no session with another mode.
C25_AsStated ==
  combat # NoCombat => combat.combat_style \in {"soft", "strict"}

\* C26: with a store and a campaign id configured, roll_damage_tool records
\* a kill of a target only in the call whose damage takes the target's hit
\* points from above 0 to 0 or below; a target already at or below 0 gets no
\* further kill recorded, hence at most one kill per target in a session.
C26_KillStep ==
  (result'.op = "roll_damage" /\ call'.op = "record_kill") =>
    LET a == combat.combatants[call'.target_id]
    IN heap[a].hp > 0 /\ heap'[a].hp <= 0

C26_AsStated == [][C26_KillStep]_vars

\* C27: roll_attack_tool recovers the raw d20 as result.roll minus
\* result.modifier, and that is the die roll_attack drew, in the natural 1,
\* the natural 20 and the ordinary branch and for every modifier; so the tool
\* records crit_hit exactly for a natural 20 and crit_fail exactly for a
\* natural 1, never for a modified roll whose total is 20 or 1.
C27_ToolStep ==
  (call.op = "roll_attack_tool" /\ result'.op = "roll_attack" /\ result'.err = OK) =>
    LET r == result'.ret
        recorded == IF call'.op = "record_moment" THEN call'.moments ELSE {}
    IN /\ r.roll - r.modifier = r.raw
       /\ ("crit_hit" \in recorded) = (r.raw = 20)
       /\ ("crit_fail" \in recorded) = (r.raw = 1)

C27_RawRecovered == [][C27_ToolStep]_vars

\* a roll of 19 with modifier +1 totals 20 and no moment is recorded
C27_Witness ==
  /\ result.op = "roll_attack" /\ result.err = OK
  /\ result.ret.raw = 19 /\ result.ret.roll = 20
  /\ call = NoCall

\* C28: within one session no operation raises a combatant's hit points:
\* a successful roll_damage lowers the target's hit points by at least 1 and
\* nothing else changes hit points; so roll_damage against a target already
\* at 0 or below reports dead again, and roll_attack, roll_damage, roll_save,
\* roll_ability_check and roll_morale never reject a combatant of the roster
\* for being at 0 hit points or below.
C28_Involved ==
  IF result'.op \in {"roll_attack", "roll_damage"}
  THEN {result'.args.attacker, result'.args.target}
  ELSE {result'.args.target}

C28_HpStep ==
  (combat # NoCombat /\ combat' # NoCombat) =>
    \A id \in Roster :
      LET before == heap[combat.combatants[id]].hp
          after == heap'[combat'.combatants[id]].hp
      IN IF result'.op = "roll_damage" /\ result'.err = OK /\ result'.args.target = id
         THEN /\ after <= before - 1
              /\ before <= 0 => result'.ret.status = "dead"
         ELSE after = before

C28_AcceptStep ==
  (/\ result'.op \in {"roll_attack", "roll_damage", "roll_save",
                      "roll_ability_check", "roll_morale"}
   /\ C28_Involved \subseteq Roster
   /\ \E id \in C28_Involved : Get(id).hp <= 0) =>
    /\ result'.err \notin {NoActiveCombat, CombatantNotFound}
    /\ result'.op \in {"roll_attack", "roll_morale"} => result'.err = OK
    /\ result'.op = "roll_damage" =>
         result'.err \in {OK, MissingDamageDice, InvalidNotation, InvalidDice}
    /\ result'.op = "roll_save" => result'.err \in {OK, InvalidSaveCategory}
    /\ result'.op = "roll_ability_check" => result'.err \in {OK, InvalidAbility}

C30_ReaddStep ==
  (/\ result'.op = "add_combatant" /\ result'.err = OK
   /\ result'.args.sheet.is_pc
   /\ result'.args.id \in Registered) =>
    LET id == result'.args.id
        sheet == result'.args.sheet
    IN /\ combat'.combatants[id] # 0
       /\ heap'[combat'.combatants[id]] = Combatant(id, sheet)
       /\ pcs'[id] = combat'.combatants[id]
       /\ heap'[pcs'[id]].hp = sheet.hp
       /\ heap'[pcs'[id]].conditions = {}
       /\ \A a \in Addrs \ {pcs'[id]} : heap'[a] = Free \/ heap'[a].id # id

====
